---- MODULE Spec2Model ----
(***************************************************************************)
(* A model of go-spf (RFC 7208 check_host): the Checker of src/spf.go, the *)
(* record selection of src/dns/dns.go and the record parser (package       *)
(* parser, src/dns.go lines 116-697).                                      *)
(*                                                                         *)
(* Text is modelled as a sequence of one-character strings, a net.IP as a  *)
(* sequence of 4 or 16 octets, and a Go error as a record that lists the   *)
(* sentinels errors.Is finds in its chain.                                 *)
(***************************************************************************)
EXTENDS Integers, Sequences, FiniteSets, TLC

(***************************************************************************)
(* strings package                                                         *)
(***************************************************************************)

\* unicode.IsSpace restricted to the characters the model uses
WhiteSpace == {" ", "\t"}

UpperCase == <<"A","B","C","D","E","F","G","H","I","J","K","L","M",
               "N","O","P","Q","R","S","T","U","V","W","X","Y","Z">>

LowerCase == <<"a","b","c","d","e","f","g","h","i","j","k","l","m",
               "n","o","p","q","r","s","t","u","v","w","x","y","z">>

Digits == <<"0","1","2","3","4","5","6","7","8","9">>

IsUpper(c) == \E k \in 1..26 : UpperCase[k] = c

IsLower(c) == \E k \in 1..26 : LowerCase[k] = c

IsDigit(c) == \E k \in 1..10 : Digits[k] = c

DigitVal(c) == (CHOOSE k \in 1..10 : Digits[k] = c) - 1

LowerOf(c) == IF IsUpper(c) THEN LowerCase[CHOOSE k \in 1..26 : UpperCase[k] = c] ELSE c

\* strings.ToLower
ToLower(s) == [k \in 1..Len(s) |-> LowerOf(s[k])]

\* strings.HasPrefix
HasPrefix(s, p) == Len(s) >= Len(p) /\ SubSeq(s, 1, Len(p)) = p

\* strings.HasSuffix
HasSuffix(s, p) == Len(s) >= Len(p) /\ SubSeq(s, Len(s) - Len(p) + 1, Len(s)) = p

\* s[n:]
Drop(s, n) == SubSeq(s, n + 1, Len(s))

\* strings.TrimPrefix
TrimPrefix(s, p) == IF HasPrefix(s, p) THEN Drop(s, Len(p)) ELSE s

\* strings.TrimSuffix
TrimSuffix(s, p) == IF HasSuffix(s, p) THEN SubSeq(s, 1, Len(s) - Len(p)) ELSE s

\* strings.ContainsRune
ContainsRune(s, c) == \E k \in 1..Len(s) : s[k] = c

\* strings.IndexByte, 1-based; 0 when c does not occur
IndexByte(s, c) == IF ContainsRune(s, c)
                   THEN CHOOSE k \in 1..Len(s) : s[k] = c /\ \A j \in 1..(k - 1) : s[j] # c
                   ELSE 0

\* strings.TrimSpace
TrimSpace(s) ==
  LET ns == {k \in 1..Len(s) : s[k] \notin WhiteSpace}
  IN IF ns = {} THEN <<>>
     ELSE SubSeq(s, CHOOSE k \in ns : \A j \in ns : k <= j,
                    CHOOSE k \in ns : \A j \in ns : k >= j)

\* strings.Trim(s, cutset)
TrimSet(s, cutset) ==
  LET ns == {k \in 1..Len(s) : s[k] \notin cutset}
  IN IF ns = {} THEN <<>>
     ELSE SubSeq(s, CHOOSE k \in ns : \A j \in ns : k <= j,
                    CHOOSE k \in ns : \A j \in ns : k >= j)

\* the i-th smallest element of a set of positions
NthOf(S, i) == CHOOSE k \in S : Cardinality({j \in S : j < k}) = i - 1

\* strings.Split with a one-character separator: the pieces between
\* consecutive separators, empty pieces included
Split(s, sep) ==
  LET seps == {k \in 1..Len(s) : s[k] = sep}
      pieces(n) ==
        [i \in 1..(n + 1) |->
           SubSeq(s, IF i = 1 THEN 1 ELSE NthOf(seps, i - 1) + 1,
                     IF i = n + 1 THEN Len(s) ELSE NthOf(seps, i) - 1)]
  IN pieces(Cardinality(seps))

\* strings.Fields: the maximal runs of non-space characters, in order
Fields(s) ==
  LET starts == {k \in 1..Len(s) : s[k] \notin WhiteSpace
                                    /\ (k = 1 \/ s[k - 1] \in WhiteSpace)}
      ends   == {k \in 1..Len(s) : s[k] \notin WhiteSpace
                                    /\ (k = Len(s) \/ s[k + 1] \in WhiteSpace)}
  IN [i \in 1..Cardinality(starts) |-> SubSeq(s, NthOf(starts, i), NthOf(ends, i))]

\* strings.Cut with a one-character separator
Cut(s, sep) ==
  LET k == IndexByte(s, sep)
  IN IF k = 0 THEN [before |-> s, after |-> <<>>, found |-> FALSE]
     ELSE [before |-> SubSeq(s, 1, k - 1), after |-> Drop(s, k), found |-> TRUE]

\* strings.EqualFold on ASCII text
EqualFold(s, t) == ToLower(s) = ToLower(t)

(***************************************************************************)
(* errors                                                                  *)
(***************************************************************************)

\* the nil error
NilErr == [nil |-> TRUE, is |-> {}, dnsErr |-> FALSE,
           IsNotFound |-> FALSE, IsTemporary |-> FALSE, IsTimeout |-> FALSE]

\* errors.New(name): a sentinel matched only by itself
ErrorsNew(name) == [nil |-> FALSE, is |-> {name}, dnsErr |-> FALSE,
                    IsNotFound |-> FALSE, IsTemporary |-> FALSE, IsTimeout |-> FALSE]

\* &net.DNSError{IsNotFound: nf, IsTemporary: tmp, IsTimeout: to}
DNSError(nf, tmp, to) == [nil |-> FALSE, is |-> {}, dnsErr |-> TRUE,
                          IsNotFound |-> nf, IsTemporary |-> tmp, IsTimeout |-> to]

\* errors.Is
ErrorsIs(err, target) == ~err.nil /\ target.is # {} /\ target.is \subseteq err.is

\* (*net.DNSError).Temporary
Temporary(err) == err.IsTimeout \/ err.IsTemporary

\* fmt.Errorf("%w: %w", sentinel, err)
Wrap(sentinel, err) == [err EXCEPT !.is = err.is \cup sentinel.is]

ContextCanceled == ErrorsNew("context.Canceled")

ContextDeadlineExceeded == ErrorsNew("context.DeadlineExceeded")

ErrMultipleSPF == ErrorsNew("ErrMultipleSPF")

ErrNoDNSrecord == ErrorsNew("ErrNoDNSrecord")

ErrTempfail == ErrorsNew("ErrTempfail")

ErrPermfail == ErrorsNew("ErrPermfail")

ErrSingleLabel == ErrorsNew("ErrSingleLabel")

ErrEmptyLabel == ErrorsNew("ErrEmptyLabel")

ErrLabelTooLong == ErrorsNew("ErrLabelTooLong")

ErrDomainTooLong == ErrorsNew("ErrDomainTooLong")

ErrIDNAConversion == ErrorsNew("ErrIDNAConversion")

ErrNotModifier == ErrorsNew("ErrNotModifier")

\* fmt.Errorf(text) without %w: a fresh error that matches no sentinel but itself
Errorf(text) == ErrorsNew(text)

IsContextErr(err) == ErrorsIs(err, ContextCanceled) \/ ErrorsIs(err, ContextDeadlineExceeded)

(***************************************************************************)
(* golang.org/x/net/idna, on ASCII input                                   *)
(***************************************************************************)

\* code points the UTS 46 table with STD3 rules leaves valid or maps (ASCII)
IdnaAllowed(c) == IsLower(c) \/ IsUpper(c) \/ IsDigit(c) \/ c = "-" \/ c = "."

\* Profile.validateLabel with checkHyphens, for a non-empty ASCII label
IdnaLabelOK(l) ==
  \/ l = <<>>
  \/ /\ ~(Len(l) > 4 /\ l[3] = "-" /\ l[4] = "-")
     /\ l[1] # "-"
     /\ l[Len(l)] # "-"

\* idna.Lookup.ToASCII: lower-cases, rejects characters outside letters,
\* digits, hyphen and dot, and rejects labels with misplaced hyphens; the
\* Lookup profile does not verify DNS lengths, so empty labels pass.
\* Labels with the ACE prefix (punycode) are outside the modelled inputs.
IdnaToASCII(s) ==
  LET labels == Split(s, ".")
  IN IF /\ \A k \in 1..Len(s) : IdnaAllowed(s[k])
        /\ \A k \in 1..Len(labels) : IdnaLabelOK(labels[k])
     THEN [val |-> ToLower(s), err |-> NilErr]
     ELSE [val |-> <<>>, err |-> Errorf("idna: invalid label")]

(***************************************************************************)
(* parser.ValidateDomain                                                   *)
(***************************************************************************)

MaxDomainOctets == 255

MaxLabelOctets == 63

\* the length limit of a name taken to exclude the limit itself
validateASCIIBelow(ascii, labels) ==
  IF Len(ascii) >= MaxDomainOctets THEN [val |-> <<>>, err |-> ErrDomainTooLong]
  ELSE IF Len(labels) < 2 THEN [val |-> <<>>, err |-> ErrSingleLabel]
  ELSE IF \E k \in 1..Len(labels) : Len(labels[k]) = 0 THEN [val |-> <<>>, err |-> ErrEmptyLabel]
  ELSE IF \E k \in 1..Len(labels) : Len(labels[k]) > MaxLabelOctets
  THEN [val |-> <<>>, err |-> ErrLabelTooLong]
  ELSE [val |-> ascii, err |-> NilErr]

\* the first label error of the loop over labels, NilErr if there is none
RECURSIVE LabelCheck(_)
LabelCheck(labels) ==
  IF labels = <<>> THEN NilErr
  ELSE IF Len(Head(labels)) = 0 THEN ErrEmptyLabel
  ELSE IF Len(Head(labels)) > MaxLabelOctets THEN ErrLabelTooLong
  ELSE LabelCheck(Tail(labels))

\* ValidateDomain, lines 641-662: the length and label checks on the ASCII name
validateASCII(ascii, labels) ==
  IF Len(ascii) > MaxDomainOctets THEN [val |-> <<>>, err |-> ErrDomainTooLong]
  ELSE IF Len(labels) < 2 THEN [val |-> <<>>, err |-> ErrSingleLabel]
  ELSE IF ~LabelCheck(labels).nil THEN [val |-> <<>>, err |-> LabelCheck(labels)]
  ELSE [val |-> ascii, err |-> NilErr]

\* ValidateDomain, lines 634-648: conv is what idna.Lookup.ToASCII returned
validateConverted(conv) ==
  IF ~conv.err.nil THEN [val |-> <<>>, err |-> ErrIDNAConversion]
  ELSE validateASCII(ToLower(conv.val), Split(ToLower(conv.val), "."))

ValidateDomain(raw) == validateConverted(IdnaToASCII(TrimSuffix(TrimSpace(raw), <<".">>)))

(***************************************************************************)
(* net: IP, IPMask, IPNet                                                  *)
(***************************************************************************)

\* a nil net.IP / net.IPMask
NilIP == <<>>

v4InV6Prefix == <<0, 0, 0, 0, 0, 0, 0, 0, 0, 0, 255, 255>>

RECURSIVE Pow2(_)
Pow2(n) == IF n = 0 THEN 1 ELSE 2 * Pow2(n - 1)

RECURSIVE BitAnd(_, _, _)
BitAnd(x, y, n) == IF n = 0 THEN 0
                   ELSE (x % 2) * (y % 2) + 2 * BitAnd(x \div 2, y \div 2, n - 1)

\* a & b on octets
AndByte(a, b) == BitAnd(a, b, 8)

\* IP.To4
To4(ip) ==
  IF Len(ip) = 4 THEN ip
  ELSE IF Len(ip) = 16 /\ SubSeq(ip, 1, 12) = v4InV6Prefix THEN SubSeq(ip, 13, 16)
  ELSE NilIP

\* IP.To16
To16(ip) ==
  IF Len(ip) = 4 THEN v4InV6Prefix \o ip
  ELSE IF Len(ip) = 16 THEN ip
  ELSE NilIP

\* net.CIDRMask
CIDRMask(ones, bits) ==
  IF bits # 32 /\ bits # 128 THEN NilIP
  ELSE IF ones < 0 \/ ones > bits THEN NilIP
  ELSE [k \in 1..(bits \div 8) |->
          LET n == ones - 8 * (k - 1)
          IN IF n >= 8 THEN 255 ELSE IF n <= 0 THEN 0 ELSE 256 - Pow2(8 - n)]

\* IP.Mask
MaskIP(ip, mask) ==
  LET m  == IF Len(mask) = 16 /\ Len(ip) = 4
               /\ \A k \in 1..12 : mask[k] = 255
            THEN SubSeq(mask, 13, 16) ELSE mask
      ip2 == IF Len(m) = 4 /\ Len(ip) = 16 /\ SubSeq(ip, 1, 12) = v4InV6Prefix
             THEN SubSeq(ip, 13, 16) ELSE ip
  IN IF Len(ip2) # Len(m) THEN NilIP
     ELSE [k \in 1..Len(ip2) |-> AndByte(ip2[k], m[k])]

\* net.networkNumberAndMask
networkNumberAndMask(n) ==
  LET ip4 == To4(n.IP)
      ip  == IF ip4 # NilIP THEN ip4 ELSE n.IP
  IN IF ip4 = NilIP /\ Len(ip) # 16 THEN [ip |-> NilIP, m |-> NilIP]
     ELSE IF Len(n.Mask) = 4
          THEN (IF Len(ip) # 4 THEN [ip |-> NilIP, m |-> NilIP]
                ELSE [ip |-> ip, m |-> n.Mask])
     ELSE IF Len(n.Mask) = 16
          THEN [ip |-> ip, m |-> IF Len(ip) = 4 THEN SubSeq(n.Mask, 13, 16) ELSE n.Mask]
     ELSE [ip |-> NilIP, m |-> NilIP]

\* (*IPNet).Contains
Contains(n, ipIn) ==
  LET nm == networkNumberAndMask(n)
      ip == IF To4(ipIn) # NilIP THEN To4(ipIn) ELSE ipIn
  IN /\ Len(ip) = Len(nm.ip)
     /\ \A k \in 1..Len(ip) : AndByte(nm.ip[k], nm.m[k]) = AndByte(ip[k], nm.m[k])

\* IPMask.Size: the number of leading ones (masks here are canonical)
RECURSIVE MaskOnes(_)
MaskOnes(mask) ==
  IF mask = <<>> THEN 0
  ELSE IF Head(mask) = 255 THEN 8 + MaskOnes(Tail(mask))
  ELSE CHOOSE n \in 0..7 : Head(mask) = 256 - Pow2(8 - n) \/ (n = 0 /\ Head(mask) = 0)

(***************************************************************************)
(* net/netip.ParseAddr and net.ParseCIDR                                   *)
(***************************************************************************)

HexLetters == <<"a","b","c","d","e","f">>

IsHex(c) == IsDigit(c) \/ (\E k \in 1..6 : HexLetters[k] = LowerOf(c))

HexVal(c) == IF IsDigit(c) THEN DigitVal(c)
             ELSE 9 + (CHOOSE k \in 1..6 : HexLetters[k] = LowerOf(c))

AllDigits(s) == \A k \in 1..Len(s) : IsDigit(s[k])

RECURSIVE DecVal(_)
DecVal(s) == IF s = <<>> THEN 0 ELSE 10 * DecVal(SubSeq(s, 1, Len(s) - 1)) + DigitVal(s[Len(s)])

RECURSIVE HexNum(_)
HexNum(s) == IF s = <<>> THEN 0 ELSE 16 * HexNum(SubSeq(s, 1, Len(s) - 1)) + HexVal(s[Len(s)])

\* one dotted-decimal field: digits, no leading zero, at most 255
IPv4FieldOK(f) ==
  /\ f # <<>>
  /\ Len(f) <= 3
  /\ AllDigits(f)
  /\ (Len(f) > 1 => f[1] # "0")
  /\ DecVal(f) <= 255

\* netip.parseIPv4Fields
parseIPv4Fields(s) ==
  LET parts == Split(s, ".")
  IN IF Len(parts) = 4 /\ \A k \in 1..4 : IPv4FieldOK(parts[k])
     THEN [ok |-> TRUE, ip |-> [k \in 1..4 |-> DecVal(parts[k])]]
     ELSE [ok |-> FALSE, ip |-> NilIP]

\* the number of leading hexadecimal digits of s
RECURSIVE HexRun(_)
HexRun(s) == IF s # <<>> /\ IsHex(Head(s)) THEN 1 + HexRun(Tail(s)) ELSE 0

\* what the loop of netip.parseIPv6 hands back: the octets written, the octet
\* offset of "::" (-1 when there is none) and the text left unparsed
v6Loop(ok, ip, ellipsis, rest) == [ok |-> ok, ip |-> ip, ellipsis |-> ellipsis, rest |-> rest]

\* the loop of netip.parseIPv6: s is the unparsed rest, ip the octets written
\* so far, ellipsis the octet offset of "::" (-1 when there is none yet)
RECURSIVE parseIPv6Loop(_, _, _)

\* the loop at a trailing dotted quad, v4 being its parse
parseIPv6Quad(s, ip, ellipsis, v4) ==
  IF (ellipsis < 0 /\ Len(ip) # 12) \/ Len(ip) + 4 > 16 THEN v6Loop(FALSE, ip, ellipsis, s)
  ELSE IF ~v4.ok THEN v6Loop(FALSE, ip, ellipsis, s)
  ELSE v6Loop(TRUE, ip \o v4.ip, ellipsis, <<>>)

\* the loop after a field of hex digits: ip2 the octets with the field
\* written, s2 the text after the field
parseIPv6Sep(s, ip, ellipsis, ip2, s2) ==
  IF s2 = <<>> THEN v6Loop(TRUE, ip2, ellipsis, <<>>)
  ELSE IF s2[1] # ":" \/ Len(s2) = 1 THEN v6Loop(FALSE, ip, ellipsis, s)
  ELSE IF s2[2] = ":"
       THEN (IF ellipsis >= 0 THEN v6Loop(FALSE, ip, ellipsis, s)
             ELSE IF Len(s2) = 2 THEN v6Loop(TRUE, ip2, Len(ip2), <<>>)
             ELSE parseIPv6Loop(Drop(s2, 2), ip2, Len(ip2)))
  ELSE parseIPv6Loop(Drop(s2, 1), ip2, ellipsis)

\* one round of the loop, off being the number of hex digits at the head of s
parseIPv6Field(s, ip, ellipsis, off) ==
  IF off > 4 \/ off = 0 THEN v6Loop(FALSE, ip, ellipsis, s)
  ELSE IF off < Len(s) /\ s[off + 1] = "." THEN parseIPv6Quad(s, ip, ellipsis, parseIPv4Fields(s))
  ELSE parseIPv6Sep(s, ip, ellipsis,
                    ip \o <<HexNum(SubSeq(s, 1, off)) \div 256, HexNum(SubSeq(s, 1, off)) % 256>>,
                    Drop(s, off))

parseIPv6Loop(s, ip, ellipsis) ==
  IF Len(ip) >= 16 THEN v6Loop(TRUE, ip, ellipsis, s)
  ELSE parseIPv6Field(s, ip, ellipsis, HexRun(s))

Zeros(n) == [k \in 1..n |-> 0]

\* a parsed address: its 16-octet form (As16), its bit length and its zone
Addr(ok, ip, bits, zone) == [ok |-> ok, ip |-> ip, bits |-> bits, zone |-> zone]

\* netip.parseIPv6 after its loop: r is what the loop handed back
parseIPv6Expand(r, zone) ==
  IF ~r.ok \/ r.rest # <<>> THEN Addr(FALSE, NilIP, 0, zone)
  ELSE IF Len(r.ip) < 16
       THEN (IF r.ellipsis < 0 THEN Addr(FALSE, NilIP, 0, zone)
             ELSE Addr(TRUE, SubSeq(r.ip, 1, r.ellipsis) \o Zeros(16 - Len(r.ip))
                             \o SubSeq(r.ip, r.ellipsis + 1, Len(r.ip)), 128, zone))
  ELSE IF r.ellipsis >= 0 THEN Addr(FALSE, NilIP, 0, zone)
  ELSE Addr(TRUE, r.ip, 128, zone)

\* netip.parseIPv6 on the address s0 without its zone
parseIPv6Body(s0, zone) ==
  IF HasPrefix(s0, <<":", ":">>)
  THEN (IF Len(s0) = 2 THEN Addr(TRUE, Zeros(16), 128, zone)
        ELSE parseIPv6Expand(parseIPv6Loop(Drop(s0, 2), <<>>, 0), zone))
  ELSE parseIPv6Expand(parseIPv6Loop(s0, <<>>, -1), zone)

\* netip.parseIPv6, c being the address cut at "%"; a zone is reported so that
\* ParseCIDR can reject it
parseIPv6Zone(c) ==
  IF c.found /\ c.after = <<>> THEN Addr(FALSE, NilIP, 0, <<>>)
  ELSE parseIPv6Body(c.before, c.after)

parseIPv6(in) == parseIPv6Zone(Cut(in, "%"))

\* netip.parseIPv4, v4 being what parseIPv4Fields made of the text
parseIPv4(v4) ==
  IF v4.ok THEN Addr(TRUE, v4InV6Prefix \o v4.ip, 32, <<>>) ELSE Addr(FALSE, NilIP, 0, <<>>)

\* netip.ParseAddr: the first of ".", ":" and "%" in s decides the family
ParseAddr(s) ==
  LET marks == {k \in 1..Len(s) : s[k] \in {".", ":", "%"}}
  IN IF marks = {} THEN Addr(FALSE, NilIP, 0, <<>>)
     ELSE IF s[NthOf(marks, 1)] = "." THEN parseIPv4(parseIPv4Fields(s))
     ELSE IF s[NthOf(marks, 1)] = ":" THEN parseIPv6(s)
     ELSE Addr(FALSE, NilIP, 0, <<>>)

\* net.dtoi applied to a whole string: decimal digits only, at least one
dtoiOK(s) == s # <<>> /\ AllDigits(s) /\ DecVal(s) < 16777215

NilNet == [IP |-> NilIP, Mask |-> NilIP]

\* net.ParseCIDR's result for the address ip under the mask m
cidrNet(ip, m) == [ok |-> TRUE, ip |-> ip, net |-> [IP |-> MaskIP(ip, m), Mask |-> m]]

\* net.ParseCIDR after the address is parsed; mask is the text after the slash
cidrOf(addr, mask) ==
  IF ~addr.ok \/ addr.zone # <<>> THEN [ok |-> FALSE, ip |-> NilIP, net |-> NilNet]
  ELSE IF ~dtoiOK(mask) \/ DecVal(mask) > addr.bits
       THEN [ok |-> FALSE, ip |-> NilIP, net |-> NilNet]
  ELSE cidrNet(addr.ip, CIDRMask(DecVal(mask), addr.bits))

\* net.ParseCIDR, c being the text cut at the first slash
cidrCut(c) ==
  IF ~c.found THEN [ok |-> FALSE, ip |-> NilIP, net |-> NilNet]
  ELSE cidrOf(ParseAddr(c.before), c.after)

ParseCIDR(s) == cidrCut(Cut(s, "/"))

\* strconv.Atoi: an optional sign and decimal digits
Atoi(s) ==
  LET signed == s # <<>> /\ s[1] \in {"+", "-"}
      body   == IF signed THEN Tail(s) ELSE s
  IN IF body = <<>> \/ ~AllDigits(body) \/ Len(body) > 18 THEN [ok |-> FALSE, n |-> 0]
     ELSE [ok |-> TRUE, n |-> IF signed /\ s[1] = "-" THEN 0 - DecVal(body) ELSE DecVal(body)]

(***************************************************************************)
(* package parser: the record grammar                                      *)
(***************************************************************************)

QPlus == "+"

QMinus == "-"

QTilde == "~"

QMark == "?"

\* the zero Mechanism
ZeroMech == [Qual |-> QPlus, Kind |-> <<>>, Net |-> NilNet, Domain |-> <<>>,
             Mask4 |-> 0, Mask6 |-> 0, Macro |-> FALSE]

\* a nil *Modifier
NilMod == [nil |-> TRUE, Name |-> <<>>, Value |-> <<>>, Macro |-> FALSE]

\* a mechanism parser's "no match" / error return
NoMech(text) == [mech |-> ZeroMech, err |-> Errorf(text)]

KwVersion == <<"v","=","s","p","f","1">>

KwAll == <<"a","l","l">>

KwIP4 == <<"i","p","4",":">>

KwIP6 == <<"i","p","6",":">>

KwA == <<"a">>

KwMX == <<"m","x">>

KwPTR == <<"p","t","r">>

KwExists == <<"e","x","i","s","t","s",":">>

KwInclude == <<"i","n","c","l","u","d","e",":">>

KwRedirect == <<"r","e","d","i","r","e","c","t">>

KwExp == <<"e","x","p">>

\* Kind strings of the parsed mechanisms
KindAll == "all"

KindIP4 == "ip4"

KindIP6 == "ip6"

KindA == "a"

KindMX == "mx"

KindPTR == "ptr"

KindExists == "exists"

KindInclude == "include"

\* the test for missing terms off by one: the version tag alone is accepted
tokenizerFieldsEmpty(fields) ==
  IF Len(fields) < 1 THEN [fields |-> <<>>, err |-> Errorf("no terms")]
  ELSE [fields |-> Tail(fields), err |-> NilErr]

\* tokenizer, lines 270-275: fields are the whitespace-separated pieces
tokenizerFields(fields) ==
  IF Len(fields) <= 1 THEN [fields |-> <<>>, err |-> Errorf("no terms")]
  ELSE [fields |-> Tail(fields), err |-> NilErr]

\* tokenizer, lines 266-270: raw is the trimmed record
tokenizerTrimmed(raw) ==
  IF ~HasPrefix(ToLower(raw), KwVersion) THEN [fields |-> <<>>, err |-> Errorf("missing v=spf1")]
  ELSE tokenizerFields(Fields(raw))

tokenizer(raw0) == tokenizerTrimmed(TrimSpace(raw0))

\* the qualifier of a term without one taken to be "?"
stripQualifierMark(tok) ==
  IF tok = <<>> THEN [q |-> QMark, rest |-> tok]
  ELSE IF tok[1] \in {"+", "-", "~", "?"} THEN [q |-> tok[1], rest |-> Tail(tok)]
  ELSE [q |-> QMark, rest |-> tok]

stripQualifier(tok) ==
  IF tok = <<>> THEN [q |-> QPlus, rest |-> tok]
  ELSE IF tok[1] \in {"+", "-", "~", "?"} THEN [q |-> tok[1], rest |-> Tail(tok)]
  ELSE [q |-> QPlus, rest |-> tok]

parseAll(q, rest) ==
  IF rest # KwAll THEN NoMech("not all")
  ELSE [mech |-> [ZeroMech EXCEPT !.Qual = q, !.Kind = KindAll], err |-> NilErr]

\* a term without a "/" taken to name every address
withPrefixLenZero(body, full) == IF ContainsRune(body, "/") THEN body ELSE body \o <<"/","0">>

\* the address of an ip4 or ip6 term with the full-length mask made explicit
withPrefixLen(body, full) == IF ContainsRune(body, "/") THEN body ELSE body \o full

\* parseIP4, lines 315-329: r is what net.ParseCIDR returned
ip4Mech(q, r) ==
  IF ~r.ok \/ To4(r.ip) = NilIP THEN NoMech("bad ipcidr")
  ELSE IF MaskOnes(r.net.Mask) > 32 THEN NoMech("cidr out of range")
  ELSE [mech |-> [ZeroMech EXCEPT !.Qual = q, !.Kind = KindIP4, !.Net = r.net], err |-> NilErr]

parseIP4(q, rest) ==
  IF ~HasPrefix(rest, KwIP4) THEN NoMech("no match")
  ELSE ip4Mech(q, ParseCIDR(withPrefixLen(TrimPrefix(rest, KwIP4), <<"/","3","2">>)))

\* parseIP6, lines 344-358: r is what net.ParseCIDR returned
ip6Mech(q, r) ==
  IF ~r.ok \/ To4(r.ip) # NilIP THEN NoMech("bad ipcidr")
  ELSE IF MaskOnes(r.net.Mask) > 128 THEN NoMech("cidr out out of range")
  ELSE [mech |-> [ZeroMech EXCEPT !.Qual = q, !.Kind = KindIP6, !.Net = r.net], err |-> NilErr]

parseIP6(q, rest) ==
  IF ~HasPrefix(rest, KwIP6) THEN NoMech("no match")
  ELSE ip6Mech(q, ParseCIDR(withPrefixLen(TrimPrefix(rest, KwIP6), <<"/","1","2","8">>)))

\* the toInt closure of parseMasks, a being what strconv.Atoi returned
toIntRange(a, max) ==
  IF ~a.ok \/ a.n < 0 \/ a.n > max THEN [n |-> 0, err |-> Errorf("cidr out of range")]
  ELSE [n |-> a.n, err |-> NilErr]

toInt(s, max) == toIntRange(Atoi(s), max)

\* parseMasks, case 1: "<mask4>"
masks4(m4) == [mask4 |-> m4.n, mask6 |-> -1, err |-> m4.err]

\* parseMasks, case 2: "<mask4>/<mask6>"
masks46(m4, m6) ==
  IF ~m4.err.nil THEN [mask4 |-> 0, mask6 |-> 0, err |-> m4.err]
  ELSE [mask4 |-> m4.n, mask6 |-> m6.n, err |-> m6.err]

\* parseMasks on the pieces between slashes
masksOf(parts) ==
  IF Len(parts) = 1 THEN masks4(toInt(parts[1], 32))
  ELSE IF Len(parts) = 2 THEN masks46(toInt(parts[1], 32), toInt(parts[2], 128))
  ELSE [mask4 |-> 0, mask6 |-> 0, err |-> Errorf("too many / segments in mask")]

parseMasks(maskstr) == masksOf(Split(maskstr, "/"))

\* parseA and parseMX on "/<mask>": m is what parseMasks returned
maskedMech(q, kind, m) ==
  IF ~m.err.nil THEN [mech |-> ZeroMech, err |-> m.err]
  ELSE [mech |-> [ZeroMech EXCEPT !.Qual = q, !.Kind = kind,
                                  !.Mask4 = m.mask4, !.Mask6 = m.mask6],
        err |-> NilErr]

\* parseA and parseMX on ":<domain>[/<mask>]": c is the text after the colon
\* cut at the first slash, derr what ValidateDomain says of the domain and m
\* what parseMasks says of the text after the slash
domainMech(q, kind, c, derr, m) ==
  IF c.before # <<>> /\ ~derr.nil THEN NoMech("bad domain")
  ELSE IF c.after # <<>> /\ ~m.err.nil THEN [mech |-> ZeroMech, err |-> m.err]
  ELSE [mech |-> [ZeroMech EXCEPT
                    !.Qual = q, !.Kind = kind, !.Domain = c.before,
                    !.Mask4 = IF c.after # <<>> THEN m.mask4 ELSE -1,
                    !.Mask6 = IF c.after # <<>> THEN m.mask6 ELSE -1],
        err |-> NilErr]

\* the term after the keyword's colon, cut at the first slash
domainSpec(q, kind, c) ==
  domainMech(q, kind, c, ValidateDomain(c.before).err, parseMasks(c.after))

\* what follows the keyword in parseA and parseMX: a mask without a domain
\* is the whole of m, a domain with a mask is cut at its slash
domainOrMask(q, kind, spec, m) ==
  IF spec = <<>>
  THEN [mech |-> [ZeroMech EXCEPT !.Qual = q, !.Kind = kind, !.Mask4 = -1, !.Mask6 = -1],
        err |-> NilErr]
  ELSE IF spec[1] = "/" THEN maskedMech(q, kind, m)
  ELSE IF spec[1] = ":" THEN domainSpec(q, kind, Cut(Drop(spec, 1), "/"))
  ELSE NoMech("invalid mechanism syntax")

\* the body shared by parseA and parseMX: spec is the term after the keyword
parseDomainMasks(q, kind, spec) == domainOrMask(q, kind, spec, parseMasks(Drop(spec, 1)))

\* parseA and parseMX on a term that may start with the keyword kw
keywordMech(q, kind, kw, rest) ==
  IF ~HasPrefix(rest, kw) THEN NoMech("no match")
  ELSE parseDomainMasks(q, kind, Drop(rest, Len(kw)))

parseA(q, rest) == keywordMech(q, KindA, KwA, rest)

parseMX(q, rest) == keywordMech(q, KindMX, KwMX, rest)

parsePTR(q, rest) ==
  LET spec0 == Drop(rest, 3)
      spec  == IF spec0 # <<>> /\ spec0[1] = ":" THEN Drop(spec0, 1) ELSE spec0
  IN IF ~HasPrefix(rest, KwPTR) THEN NoMech("no match")
     ELSE [mech |-> [ZeroMech EXCEPT !.Qual = q, !.Kind = KindPTR, !.Domain = spec,
                                     !.Macro = ContainsRune(spec, "%")],
           err |-> NilErr]

parseExists(q, rest) ==
  LET spec == Drop(rest, Len(KwExists))
  IN IF ~HasPrefix(rest, KwExists) THEN NoMech("no match")
     ELSE IF spec = <<>> THEN NoMech("empty exists domain")
     ELSE [mech |-> [ZeroMech EXCEPT !.Qual = q, !.Kind = KindExists, !.Domain = spec,
                                     !.Macro = ContainsRune(spec, "%")],
           err |-> NilErr]

parseInclude(q, rest) ==
  LET spec == Drop(rest, Len(KwInclude))
  IN IF ~HasPrefix(rest, KwInclude) THEN NoMech("no match")
     ELSE IF spec = <<>> THEN NoMech("include has an empty domain")
     ELSE [mech |-> [ZeroMech EXCEPT !.Qual = q, !.Kind = KindInclude, !.Domain = spec,
                                     !.Macro = ContainsRune(spec, "%")],
           err |-> NilErr]

parserModifier(tok) ==
  LET c     == Cut(tok, "=")
      name  == TrimSpace(ToLower(c.before))
      value == TrimSpace(ToLower(c.after))
  IN IF ~c.found THEN [mod |-> NilMod, err |-> ErrNotModifier]
     ELSE IF value = <<>> THEN [mod |-> NilMod, err |-> Errorf("modifier missing value")]
     ELSE [mod |-> [nil |-> FALSE, Name |-> name, Value |-> value, Macro |-> FALSE],
           err |-> NilErr]

\* one step of the loop over mechParsers: r is what a parser returned, others
\* what the parsers after it return
orElse(r, others) == IF r.err.nil THEN r ELSE others

\* the dispatch over mechParsers: the first parser that accepts wins, and the
\* error of the last parser tried is reported when none accepts
parseMechanism(q, rest) ==
  orElse(parseAll(q, rest),
  orElse(parseIP4(q, rest),
  orElse(parseIP6(q, rest),
  orElse(parseA(q, rest),
  orElse(parseMX(q, rest),
  orElse(parsePTR(q, rest),
  orElse(parseExists(q, rest), parseInclude(q, rest))))))))

\* the empty Record
EmptyRecord == [Mechs |-> <<>>, Redirect |-> NilMod, Exp |-> NilMod, Unknown |-> <<>>]

\* what the loop of Parse makes of one token: kind tells a mechanism ("mech"),
\* a modifier ("redirect", "exp", "unknown") or a term that ends Parse
\* ("error"); err is the error the term ends Parse with, if it does
Term(kind, mod, mech, err) == [kind |-> kind, mod |-> mod, mech |-> mech, err |-> err]

\* Parse, lines 205-237: a modifier; mac tells a macro in its value and derr
\* is what ValidateDomain says of the value
modifierTerm(mod, mac, derr) ==
  IF mod.Name = KwRedirect
  THEN Term("redirect", [mod EXCEPT !.Macro = mac], ZeroMech, IF ~mac THEN derr ELSE NilErr)
  ELSE IF mod.Name = KwExp
  THEN Term("exp", [mod EXCEPT !.Macro = mac], ZeroMech, IF ~mac THEN derr ELSE NilErr)
  ELSE Term("unknown", mod, ZeroMech, NilErr)

\* Parse, lines 245-256: a mechanism, pm being what the mechanism parsers returned
mechanismTerm(pm) ==
  IF ~pm.err.nil
  THEN Term("error", NilMod, ZeroMech, Errorf("permerror: no mechanism accepts the term"))
  ELSE Term("mech", NilMod, pm.mech, NilErr)

\* a term that is no modifier, sq being the token with its qualifier split off
qualifiedTerm(sq) == mechanismTerm(parseMechanism(sq.q, sq.rest))

\* Parse, lines 199-257: the loop body on the token tok, m being what
\* parserModifier returned for it
termOf(tok, m) ==
  IF m.err.nil
  THEN modifierTerm(m.mod, ContainsRune(m.mod.Value, "%"), ValidateDomain(m.mod.Value).err)
  ELSE IF ~ErrorsIs(m.err, ErrNotModifier) THEN Term("error", NilMod, ZeroMech, m.err)
  ELSE qualifiedTerm(stripQualifier(tok))

parseTerm(tok) == termOf(tok, parserModifier(tok))

\* a second redirect or exp let through
termErrorRepeats(terms, i) == terms[i].err

\* the error that ends the loop of Parse at term i, NilErr if the loop goes
\* on: a second redirect or exp is refused before its value is looked at
termError(terms, i) ==
  IF terms[i].kind = "redirect" /\ \E j \in 1..(i - 1) : terms[j].kind = "redirect"
  THEN Errorf("duplicate redirect")
  ELSE IF terms[i].kind = "exp" /\ \E j \in 1..(i - 1) : terms[j].kind = "exp"
  THEN Errorf("duplicate exp")
  ELSE terms[i].err

IsMech(t) == t.kind = "mech"

IsUnknown(t) == t.kind = "unknown"

\* the modifier of the given kind among terms, nil if there is none
modifierOf(terms, kind) ==
  IF \E i \in 1..Len(terms) : terms[i].kind = kind
  THEN terms[CHOOSE i \in 1..Len(terms) : terms[i].kind = kind].mod
  ELSE NilMod

\* the Record the loop of Parse builds from terms none of which ends it
recordOf(terms) ==
  [Mechs    |-> [k \in 1..Len(SelectSeq(terms, IsMech)) |-> SelectSeq(terms, IsMech)[k].mech],
   Redirect |-> modifierOf(terms, "redirect"),
   Exp      |-> modifierOf(terms, "exp"),
   Unknown  |-> [k \in 1..Len(SelectSeq(terms, IsUnknown)) |->
                   SelectSeq(terms, IsUnknown)[k].mod]]

\* the loop of Parse over the terms: the first term that ends it decides
ParseTerms(terms) ==
  LET ends == {i \in 1..Len(terms) : ~termError(terms, i).nil}
  IN IF ends # {} THEN [rec |-> EmptyRecord, err |-> termError(terms, NthOf(ends, 1))]
     ELSE [rec |-> recordOf(terms), err |-> NilErr]

\* Parse, lines 187-199: t is what the tokenizer returned
parseTokens(t) ==
  IF ~t.err.nil THEN [rec |-> EmptyRecord, err |-> t.err]
  ELSE ParseTerms([i \in 1..Len(t.fields) |-> parseTerm(t.fields[i])])

Parse(rawTXT) == parseTokens(tokenizer(rawTXT))

(***************************************************************************)
(* The DNS seen by the resolver, and the callers' inputs                   *)
(***************************************************************************)

D_localhost == <<"l","o","c","a","l","h","o","s","t">>

D_badu == <<"b","a","d","_",".","e","x">>

D_nx == <<"n","x",".","e","x">>

D_tmp == <<"t","m","p",".","e","x">>

D_to == <<"t","o",".","e","x">>

D_srv == <<"s","r","v",".","e","x">>

D_err == <<"e","r","r",".","e","x">>

D_multi == <<"m","u","l","t","i",".","e","x">>

D_none == <<"n","o","n","e",".","e","x">>

D_junk == <<"j","u","n","k",".","e","x">>

D_qp == <<"q","p",".","e","x">>

D_qm == <<"q","m",".","e","x">>

D_qt == <<"q","t",".","e","x">>

D_qq == <<"q","q",".","e","x">>

D_qd == <<"q","d",".","e","x">>

D_ip4 == <<"i","p","4",".","e","x">>

D_a == <<"a",".","e","x">>

D_many == <<"m","a","n","y",".","e","x">>

D_void == <<"v","o","i","d",".","e","x">>

D_mask == <<"m","a","s","k",".","e","x">>

D_aerr == <<"a","e","r","r",".","e","x">>

D_misc == <<"m","i","s","c",".","e","x">>

D_n == <<"n",".","e","x">>

D_m == <<"m",".","e","x">>

D_v == <<"v",".","e","x">>

D_w == <<"w",".","e","x">>

D_v2 == <<"v","2",".","e","x">>

D_redir == <<"r","e","d","i","r",".","e","x">>

D_inc == <<"i","n","c",".","e","x">>

D_ip6 == <<"i","p","6",".","e","x">>

D_bare == <<"b","a","r","e",".","e","x">>

D_open == <<"o","p","e","n",".","e","x">>

\* client addresses as net.ParseIP returns them (16 octets), and one 4-octet IP
IP_203_5 == <<0, 0, 0, 0, 0, 0, 0, 0, 0, 0, 255, 255, 203, 0, 113, 5>>

IP_198_1 == <<0, 0, 0, 0, 0, 0, 0, 0, 0, 0, 255, 255, 198, 51, 100, 1>>

IP_203_5_short == <<203, 0, 113, 5>>

IP_db8_1 == <<32, 1, 13, 184, 0, 0, 0, 0, 0, 0, 0, 0, 0, 0, 0, 1>>

IP_db8_2 == <<32, 1, 13, 184, 0, 0, 0, 0, 0, 0, 0, 0, 0, 0, 0, 2>>

IP_203_77 == <<0, 0, 0, 0, 0, 0, 0, 0, 0, 0, 255, 255, 203, 0, 113, 77>>

IP_db8_0_99 == <<32, 1, 13, 184, 0, 0, 0, 0, 0, 0, 0, 0, 0, 0, 0, 153>>

\* "v=spf1 +all"
R_qp == <<"v","=","s","p","f","1"," ","+","a","l","l">>

\* "v=spf1 -all"
R_qm == <<"v","=","s","p","f","1"," ","-","a","l","l">>

\* "v=spf1 ~all"
R_qt == <<"v","=","s","p","f","1"," ","~","a","l","l">>

\* "v=spf1 ?all"
R_qq == <<"v","=","s","p","f","1"," ","?","a","l","l">>

\* "v=spf1 all"
R_qd == <<"v","=","s","p","f","1"," ","a","l","l">>

\* "v=spf1 ip4:203.0.113.0/24 -all"
R_ip4 == <<"v","=","s","p","f","1"," ","i","p","4",":","2","0","3",".","0",".","1","1","3",".","0","/","2","4"," ","-","a","l","l">>

\* "V=SPF1 a -all"
R_a == <<"V","=","S","P","F","1"," ","a"," ","-","a","l","l">>

\* "v=spf1 a:n.ex a:n.ex a:n.ex a:n.ex a:n.ex a:n.ex a:n.ex a:n.ex a:n.ex a:n.ex a:m.ex -all"
R_many == <<"v","=","s","p","f","1"," ","a",":","n",".","e","x"," ","a",":","n",".","e","x"," ","a",":","n",".","e","x"," ","a",":","n",".","e","x"," ","a",":","n",".","e","x"," ","a",":","n",".","e","x"," ","a",":","n",".","e","x"," ","a",":","n",".","e","x"," ","a",":","n",".","e","x"," ","a",":","n",".","e","x"," ","a",":","m",".","e","x"," ","-","a","l","l">>

\* "v=spf1 a:v.ex a:v.ex +all"
R_v2 == <<"v","=","s","p","f","1"," ","a",":","v",".","e","x"," ","a",":","v",".","e","x"," ","+","a","l","l">>

\* "v=spf1 a:v.ex a:v.ex a:v.ex +all"
R_void == <<"v","=","s","p","f","1"," ","a",":","v",".","e","x"," ","a",":","v",".","e","x"," ","a",":","v",".","e","x"," ","+","a","l","l">>

\* "v=spf1 ip6:2001:db8:1::/48 a:w.ex/24/64 a:n.ex -all"
R_mask == <<"v","=","s","p","f","1"," ","i","p","6",":","2","0","0","1",":","d","b","8",":","1",":",":","/","4","8"," ","a",":","w",".","e","x","/","2","4","/","6","4"," ","a",":","n",".","e","x"," ","-","a","l","l">>

\* "v=spf1 -ip4:198.51.100.1 a:tmp.ex ~all"
R_aerr == <<"v","=","s","p","f","1"," ","-","i","p","4",":","1","9","8",".","5","1",".","1","0","0",".","1"," ","a",":","t","m","p",".","e","x"," ","~","a","l","l">>

\* "v=spf1  mx ptr exists:m.ex include:qp.ex a:srv.ex ?all"
R_misc == <<"v","=","s","p","f","1"," "," ","m","x"," ","p","t","r"," ","e","x","i","s","t","s",":","m",".","e","x"," ","i","n","c","l","u","d","e",":","q","p",".","e","x"," ","a",":","s","r","v",".","e","x"," ","?","a","l","l">>

\* "v=spf1 +all bogus"
R_junk == <<"v","=","s","p","f","1"," ","+","a","l","l"," ","b","o","g","u","s">>

\* "v=spf1 a"
R_multi1 == <<"v","=","s","p","f","1"," ","a">>

\* "v=SPF1 mx"
R_multi2 == <<"v","=","S","P","F","1"," ","m","x">>

\* "some txt"
R_other == <<"s","o","m","e"," ","t","x","t">>

\* "v=spf1 ip4:203.0.113.0/24 redirect=qm.ex"
R_redir == <<"v","=","s","p","f","1"," ","i","p","4",":","2","0","3",".","0",".","1","1","3",".","0","/","2","4"," ","r","e","d","i","r","e","c","t","=","q","m",".","e","x">>

\* "v=spf1 include:qp.ex -all"
R_inc == <<"v","=","s","p","f","1"," ","i","n","c","l","u","d","e",":","q","p",".","e","x"," ","-","a","l","l">>

\* "v=spf1 ip6:2001:db8::/32 ~all"
R_ip6 == <<"v","=","s","p","f","1"," ","i","p","6",":","2","0","0","1",":","d","b","8",":",":","/","3","2"," ","~","a","l","l">>

\* "v=spf1"
R_bare == <<"v","=","s","p","f","1">>

\* "v=spf1 ip4:198.51.100.0/24 mx"
R_open == <<"v","=","s","p","f","1"," ","i","p","4",":","1","9","8",".","5","1",".","1","0","0",".","0","/","2","4"," ","m","x">>

\* a resolver answer: the values returned by LookupTXT / LookupIPAddr
TXTAnswer(txts) == [txts |-> txts, ips |-> <<>>, err |-> NilErr]

IPAnswer(ips) == [txts |-> <<>>, ips |-> ips, err |-> NilErr]

ErrAnswer(err) == [txts |-> <<>>, ips |-> <<>>, err |-> err]

\* the TXT records published, by domain; a name that is not listed does not exist
ZoneTXT(d) ==
  CASE d = D_nx    -> ErrAnswer(DNSError(TRUE, FALSE, FALSE))
    [] d = D_tmp   -> ErrAnswer(DNSError(FALSE, TRUE, FALSE))
    [] d = D_to    -> ErrAnswer(DNSError(FALSE, FALSE, TRUE))
    [] d = D_srv   -> ErrAnswer(DNSError(FALSE, FALSE, FALSE))
    [] d = D_err   -> ErrAnswer(ErrorsNew("perm failure"))
    [] d = D_multi -> TXTAnswer(<<R_multi1, R_other, R_multi2>>)
    [] d = D_none  -> TXTAnswer(<<R_other>>)
    [] d = D_junk  -> TXTAnswer(<<R_junk>>)
    [] d = D_qp    -> TXTAnswer(<<R_qp>>)
    [] d = D_qm    -> TXTAnswer(<<R_other, R_qm>>)
    [] d = D_qt    -> TXTAnswer(<<R_qt>>)
    [] d = D_qq    -> TXTAnswer(<<R_qq>>)
    [] d = D_qd    -> TXTAnswer(<<R_qd>>)
    [] d = D_ip4   -> TXTAnswer(<<R_ip4>>)
    [] d = D_a     -> TXTAnswer(<<R_a>>)
    [] d = D_many  -> TXTAnswer(<<R_many>>)
    [] d = D_void  -> TXTAnswer(<<R_void>>)
    [] d = D_v2    -> TXTAnswer(<<R_v2>>)
    [] d = D_mask  -> TXTAnswer(<<R_mask>>)
    [] d = D_aerr  -> TXTAnswer(<<R_aerr>>)
    [] d = D_misc  -> TXTAnswer(<<R_misc>>)
    [] d = D_redir -> TXTAnswer(<<R_redir>>)
    [] d = D_inc   -> TXTAnswer(<<R_inc>>)
    [] d = D_ip6   -> TXTAnswer(<<R_ip6>>)
    [] d = D_bare  -> TXTAnswer(<<R_bare>>)
    [] d = D_open  -> TXTAnswer(<<R_open>>)
    [] OTHER       -> ErrAnswer(DNSError(TRUE, FALSE, FALSE))

\* the A/AAAA records published, by host name
ZoneIP(h) ==
  CASE h = D_a    -> IPAnswer(<<IP_198_1, IP_db8_2>>)
    [] h = D_n    -> IPAnswer(<<IP_db8_2>>)
    [] h = D_m    -> IPAnswer(<<IP_db8_1, IP_203_5>>)
    [] h = D_v    -> IPAnswer(<<>>)
    [] h = D_w    -> IPAnswer(<<IP_203_77, IP_db8_0_99>>)
    [] h = D_tmp  -> ErrAnswer(DNSError(FALSE, TRUE, FALSE))
    [] h = D_srv  -> ErrAnswer(DNSError(FALSE, FALSE, FALSE))
    [] OTHER      -> ErrAnswer(DNSError(TRUE, FALSE, FALSE))

\* the domain arguments callers pass to CheckHost
Domains == {D_localhost, D_badu, D_nx, D_tmp, D_to, D_srv, D_err, D_multi, D_none, D_junk,
            D_qp, D_qm, D_qt, D_qq, D_qd, D_ip4, D_a, D_many, D_void, D_v2, D_mask, D_aerr,
            D_misc, D_redir, D_inc, D_ip6, D_bare, D_open}

\* the client addresses callers pass to CheckHost
ClientIPs == {IP_203_5, IP_198_1, IP_db8_1, IP_203_5_short}

\* the errors a lookup returns once the caller's context is done
CtxErrs == {ContextCanceled, ContextDeadlineExceeded}

(***************************************************************************)
(* package dns: record selection                                           *)
(***************************************************************************)

\* the candidate test on the text's prefix instead of its first field
spfCandidatePrefix(t, fields) ==
  IF HasPrefix(ToLower(t), KwVersion) THEN <<t>> ELSE <<>>

\* filterSPF, lines 139-146: the trimmed TXT string t is kept if its first
\* field is the version tag
spfCandidate(t, fields) ==
  IF Len(fields) > 0 /\ EqualFold(fields[1], KwVersion) THEN <<t>> ELSE <<>>

\* the strings of txts that filterSPF keeps, each trimmed
RECURSIVE spfCandidates(_)
spfCandidates(txts) ==
  IF txts = <<>> THEN <<>>
  ELSE spfCandidate(TrimSpace(Head(txts)), Fields(TrimSpace(Head(txts))))
       \o spfCandidates(Tail(txts))

\* filterSPF, lines 148-158: found are the strings kept
spfOf(found) ==
  IF Len(found) = 0 THEN [spf |-> <<>>, err |-> NilErr]
  ELSE IF Len(found) = 1 THEN [spf |-> ToLower(found[1]), err |-> NilErr]
  ELSE [spf |-> <<>>, err |-> ErrMultipleSPF]

filterSPF(txts) == spfOf(spfCandidates(txts))

\* record selection without the Temporary case: every failure but not-found is permanent
GetSPFRecordNoTemp(ans) ==
  IF ~ans.err.nil
  THEN (IF IsContextErr(ans.err) THEN [spf |-> <<>>, err |-> ans.err]
        ELSE IF ans.err.dnsErr /\ ans.err.IsNotFound THEN [spf |-> <<>>, err |-> ErrNoDNSrecord]
        ELSE [spf |-> <<>>, err |-> Wrap(ErrPermfail, ans.err)])
  ELSE filterSPF(ans.txts)

\* GetSPFRecord applied to the answer of LookupTXT
GetSPFRecord(ans) ==
  IF ~ans.err.nil
  THEN (IF IsContextErr(ans.err) THEN [spf |-> <<>>, err |-> ans.err]
        ELSE IF ans.err.dnsErr /\ ans.err.IsNotFound THEN [spf |-> <<>>, err |-> ErrNoDNSrecord]
        ELSE IF ans.err.dnsErr /\ Temporary(ans.err)
             THEN [spf |-> <<>>, err |-> Wrap(ErrTempfail, ans.err)]
        ELSE [spf |-> <<>>, err |-> Wrap(ErrPermfail, ans.err)])
  ELSE filterSPF(ans.txts)

(***************************************************************************)
(* package spf: the Checker                                                *)
(***************************************************************************)

None == "none"

Neutral == "neutral"

Pass == "pass"

Fail == "fail"

SoftFail == "softfail"

TempError == "temperror"

PermError == "permerror"

\* the zero Result code of CheckHostResult{}
NoCode == ""

MaxDNSLookups == 10

MaxVoidLookups == 2

\* CheckHostResult
CheckHostResult(code, cause) == [Code |-> code, Cause |-> cause]

ZeroResult == CheckHostResult(NoCode, NilErr)

ErrNoAssertion == Errorf("policy exists but no assertion")

\* the mapping with the softfail case slipped to fail
resultFromQualifierSlip(q) ==
  CASE q = QPlus  -> Pass
    [] q = QMinus -> Fail
    [] q = QTilde -> Fail
    [] q = QMark  -> Neutral
    [] OTHER      -> Neutral

resultFromQualifier(q) ==
  CASE q = QPlus  -> Pass
    [] q = QMinus -> Fail
    [] q = QTilde -> SoftFail
    [] q = QMark  -> Neutral
    [] OTHER      -> Neutral

\* localPart
localPart(sender0) ==
  LET sender == TrimSet(sender0, {"<", ">"})
      at     == IndexByte(sender, "@")
  IN IF at > 1 THEN SubSeq(sender, 1, at - 1)
     ELSE <<"p","o","s","t","m","a","s","t","e","r">>

\* the validation error ignored
domainRejectedNever(v) == FALSE

\* CheckHost, line 75: the domain argument is refused
domainRejected(v) == ~v.err.nil

\* the selection without the test for an empty record: evaluate is entered
recordSelectionNoEmpty(fetch) ==
  IF IsContextErr(fetch.err) THEN [ret |-> TRUE, res |-> ZeroResult, err |-> fetch.err]
  ELSE IF ErrorsIs(fetch.err, ErrNoDNSrecord)
       THEN [ret |-> TRUE, res |-> CheckHostResult(None, fetch.err), err |-> fetch.err]
  ELSE IF ErrorsIs(fetch.err, ErrTempfail)
       THEN [ret |-> TRUE, res |-> CheckHostResult(TempError, fetch.err), err |-> NilErr]
  ELSE IF ErrorsIs(fetch.err, ErrPermfail) \/ ErrorsIs(fetch.err, ErrMultipleSPF)
       THEN [ret |-> TRUE, res |-> CheckHostResult(PermError, fetch.err), err |-> NilErr]
  ELSE IF ~fetch.err.nil THEN [ret |-> TRUE, res |-> ZeroResult, err |-> fetch.err]
  ELSE [ret |-> FALSE, res |-> ZeroResult, err |-> NilErr]

\* CheckHost, lines 85-101: what the record fetch decides. ret says that
\* CheckHost returns res and err at once; otherwise it goes on to evaluate.
recordSelection(fetch) ==
  IF IsContextErr(fetch.err) THEN [ret |-> TRUE, res |-> ZeroResult, err |-> fetch.err]
  ELSE IF ErrorsIs(fetch.err, ErrNoDNSrecord)
       THEN [ret |-> TRUE, res |-> CheckHostResult(None, fetch.err), err |-> fetch.err]
  ELSE IF ErrorsIs(fetch.err, ErrTempfail)
       THEN [ret |-> TRUE, res |-> CheckHostResult(TempError, fetch.err), err |-> NilErr]
  ELSE IF ErrorsIs(fetch.err, ErrPermfail) \/ ErrorsIs(fetch.err, ErrMultipleSPF)
       THEN [ret |-> TRUE, res |-> CheckHostResult(PermError, fetch.err), err |-> NilErr]
  ELSE IF ~fetch.err.nil THEN [ret |-> TRUE, res |-> ZeroResult, err |-> fetch.err]
  ELSE IF fetch.spf = <<>> THEN [ret |-> TRUE, res |-> ZeroResult, err |-> fetch.err]
  ELSE [ret |-> FALSE, res |-> ZeroResult, err |-> NilErr]

\* the ip4 test without the containment: every IPv4 client matches
ipMechMatchesAnyV4(mech, ip) ==
  IF mech.Kind = KindIP4 THEN To4(ip) # NilIP
  ELSE IF mech.Kind = KindIP6
       THEN To4(ip) = NilIP /\ To16(ip) # NilIP /\ Contains(mech.Net, To16(ip))
  ELSE FALSE

\* evaluate, lines 124-134: the ip4 and ip6 tests
ipMechMatches(mech, ip) ==
  IF mech.Kind = KindIP4 THEN To4(ip) # NilIP /\ Contains(mech.Net, To4(ip))
  ELSE IF mech.Kind = KindIP6
       THEN To4(ip) = NilIP /\ To16(ip) # NilIP /\ Contains(mech.Net, To16(ip))
  ELSE FALSE

\* evalA, lines 173-176
targetOf(mech, currentDomain) == IF mech.Domain = <<>> THEN currentDomain ELSE mech.Domain

\* the limit test off by one: an eleventh lookup is let through
lookupsExceededLate(lookups, max) == lookups > max + 1

\* evalA, line 179
lookupsExceeded(lookups, max) == lookups > max

\* the void-lookup limit taken to exclude the limit itself
voidsExceededAtLimit(voids, max) == voids >= max

\* evalA, line 203
voidsExceeded(voids, max) == voids > max

\* the temporary flag of a DNS error ignored
lookupErrorNoTemp(err) == IF IsContextErr(err) THEN err ELSE ErrPermfail

\* evalA, lines 185-198: the error evalA returns for a failed LookupIP
lookupError(err) ==
  IF IsContextErr(err) THEN err
  ELSE IF err.dnsErr /\ Temporary(err) THEN ErrTempfail
  ELSE ErrPermfail

prefixEqual(a, b, maskLen, totalBits) ==
  LET aa   == To16(a)
      bb   == To16(b)
      mask == CIDRMask(maskLen, totalBits)
  IN IF a = NilIP \/ b = NilIP \/ maskLen < 0 \/ maskLen > totalBits THEN FALSE
     ELSE IF aa = NilIP \/ bb = NilIP THEN FALSE
     ELSE \A k \in 1..Len(mask) : AndByte(aa[k], mask[k]) = AndByte(bb[k], mask[k])

\* evalA, lines 209-243: the comparison against the returned addresses
addressesMatch(mech, connectIP, ips) ==
  LET mask4 == IF mech.Mask4 < 0 THEN 32 ELSE mech.Mask4
      mask6 == IF mech.Mask6 < 0 THEN 128 ELSE mech.Mask6
  IN IF To4(connectIP) # NilIP
     THEN \E k \in 1..Len(ips) :
            To4(ips[k]) # NilIP /\ prefixEqual(To4(connectIP), To4(ips[k]), mask4, 32)
     ELSE IF To16(connectIP) = NilIP THEN FALSE
     ELSE \E k \in 1..Len(ips) :
            To4(ips[k]) = NilIP /\ prefixEqual(To16(connectIP), To16(ips[k]), mask6, 128)

\* the error mapping without the context case: a cancellation becomes permerror
evalErrorResultNoCtx(derr) ==
  IF ErrorsIs(derr, ErrTempfail)
  THEN [res |-> CheckHostResult(TempError, derr), err |-> NilErr]
  ELSE [res |-> CheckHostResult(PermError, derr), err |-> NilErr]

\* evaluate, lines 139-148: the return for an error of evalA
evalErrorResult(derr) ==
  IF IsContextErr(derr) THEN [res |-> ZeroResult, err |-> derr]
  ELSE IF ErrorsIs(derr, ErrTempfail)
       THEN [res |-> CheckHostResult(TempError, derr), err |-> NilErr]
  ELSE [res |-> CheckHostResult(PermError, derr), err |-> NilErr]

\* the loop without the return in the ip4 case: a matching ip4 is walked past
walkDecisionNoReturn(mech, ip) ==
  CASE mech.Kind = KindIP4 -> "next"
    [] mech.Kind = KindIP6 -> IF ipMechMatches(mech, ip) THEN "match" ELSE "next"
    [] mech.Kind = KindA   -> "lookup"
    [] mech.Kind = KindAll -> "match"
    [] OTHER               -> "next"

\* evaluate, lines 122-158: what the loop body does with one mechanism before
\* any DNS traffic: "match" returns the qualifier's result, "lookup" enters
\* evalA, "next" goes on to the following mechanism
walkDecision(mech, ip) ==
  CASE mech.Kind = KindIP4 -> IF ipMechMatches(mech, ip) THEN "match" ELSE "next"
    [] mech.Kind = KindIP6 -> IF ipMechMatches(mech, ip) THEN "match" ELSE "next"
    [] mech.Kind = KindA   -> "lookup"
    [] mech.Kind = KindAll -> "match"
    [] OTHER               -> "next"

(***************************************************************************)
(* A CheckHost call run to completion without interruption, from given     *)
(* counter values, against ZoneTXT/ZoneIP with a context that is never     *)
(* done: the value CheckHost returns and the counters it leaves.           *)
(***************************************************************************)

Outcome(res, err, lookups, voids) ==
  [res |-> res, err |-> err, Lookups |-> lookups, Voids |-> voids]

\* evaluate's loop from mechanism i on
RECURSIVE evaluateRun(_, _, _, _, _, _)
evaluateRun(lookups, voids, ip, domain, mechs, i) ==
  IF i > Len(mechs) THEN Outcome(CheckHostResult(Neutral, ErrNoAssertion), NilErr, lookups, voids)
  ELSE
    LET mech == mechs[i]
        d    == walkDecision(mech, ip)
        ans  == ZoneIP(targetOf(mech, domain))
        perm == evalErrorResult(ErrPermfail)
        lerr == evalErrorResult(lookupError(ans.err))
        hit  == Outcome(CheckHostResult(resultFromQualifier(mech.Qual), NilErr), NilErr,
                        lookups, voids)
    IN IF d = "match" THEN hit
       ELSE IF d = "next" THEN evaluateRun(lookups, voids, ip, domain, mechs, i + 1)
       ELSE IF lookupsExceeded(lookups + 1, MaxDNSLookups)
            THEN Outcome(perm.res, perm.err, lookups + 1, voids)
       ELSE IF ~ans.err.nil THEN Outcome(lerr.res, lerr.err, lookups + 1, voids)
       ELSE IF Len(ans.ips) = 0
            THEN (IF voidsExceeded(voids + 1, MaxVoidLookups)
                  THEN Outcome(perm.res, perm.err, lookups + 1, voids + 1)
                  ELSE evaluateRun(lookups + 1, voids + 1, ip, domain, mechs, i + 1))
       ELSE IF addressesMatch(mech, ip, ans.ips)
            THEN [hit EXCEPT !.Lookups = lookups + 1]
       ELSE evaluateRun(lookups + 1, voids, ip, domain, mechs, i + 1)

\* CheckHost from the fetched record on: sel is what the fetch decided, pr
\* what Parse made of the record
runRecord(lookups, voids, ip, domain, sel, pr) ==
  IF sel.ret THEN Outcome(sel.res, sel.err, lookups, voids)
  ELSE IF ~pr.err.nil THEN Outcome(CheckHostResult(PermError, pr.err), NilErr, lookups, voids)
  ELSE evaluateRun(lookups, voids, ip, domain, pr.rec.Mechs, 1)

runFetch(lookups, voids, ip, domain, fetch) ==
  runRecord(lookups, voids, ip, domain, recordSelection(fetch), Parse(fetch.spf))

\* CheckHost from the validated domain on
runDomain(lookups, voids, ip, v) ==
  IF domainRejected(v) THEN Outcome(CheckHostResult(None, v.err), NilErr, lookups, voids)
  ELSE runFetch(lookups, voids, ip, v.val, GetSPFRecord(ZoneTXT(v.val)))

CheckHostRun(lookups, voids, ip, rawDomain) ==
  runDomain(lookups, voids, ip, ValidateDomain(rawDomain))

(***************************************************************************)
(* The state machine: CheckHost calls on one Checker                       *)
(***************************************************************************)

\* how many CheckHost calls a behaviour makes
MaxCalls == 2

\* the goroutines that may call CheckHost on the Checker
Procs == {1, 2}

\* the inputs of the calls that run concurrently
ConcDomains == {D_a, D_v2, D_qm}

ConcIPs == {IP_203_5, IP_db8_1}

Senders == {<<"<",">">>, <<"u","@","e","x",".","c","o","m">>}

VARIABLES
  Lookups,   \* Checker.Lookups
  Voids,     \* Checker.Voids
  calls,     \* per goroutine: the CheckHost call it is in, and what the call did
  started,   \* the number of CheckHost calls started so far
  subject,   \* the argument of a function of the packages called on its own
  outcome    \* what that function returned, once it has

vars == <<Lookups, Voids, calls, started, subject, outcome>>

\* no function is called on its own
NoSubject == <<>>

\* the function has not returned yet
Pending == [done |-> FALSE]

\* no call in progress
IdleCall ==
  [pc |-> "idle", ip |-> NilIP, raw |-> <<>>, domain |-> <<>>, mechs |-> <<>>, i |-> 0,
   lp |-> <<>>,                       \* the sender's local part, handed to evaluate
   tmp |-> 0, res |-> ZeroResult, err |-> NilErr,
   txtIssued |-> FALSE,               \* LookupTXT was called
   ipLog |-> <<>>,                    \* the mechanisms LookupIP was called for, in order
   matched |-> 0,                     \* the mechanism whose match ended the walk
   ctxErr |-> NilErr,                 \* the context's error, once a lookup returned it
   lastA |-> [i |-> 0, ok |-> FALSE], \* the last verdict of evalA on a non-empty answer
   L0 |-> 0, V0 |-> 0]                \* the counters when the call began

\* NewChecker
Init ==
  /\ Lookups = 0
  /\ Voids = 0
  /\ calls = [p \in Procs |-> IdleCall]
  /\ started = 0
  /\ subject = NoSubject
  /\ outcome = Pending

\* the call returns (res, err)
Returned(c, res, err) == [c EXCEPT !.pc = "done", !.res = res, !.err = err]

\* what a lookup may return: the zone's answer, or the context's error
Answers(zoneAnswer) == {zoneAnswer} \cup {ErrAnswer(e) : e \in CtxErrs}

\* CheckHost, lines 74-78: v is what ValidateDomain returned for the call c
validated(c, v) ==
  IF domainRejected(v) THEN Returned(c, CheckHostResult(None, v.err), NilErr)
  ELSE [c EXCEPT !.pc = "txt", !.domain = v.val, !.txtIssued = TRUE]

\* CheckHost, lines 73-82: validate the domain and call LookupTXT
Start(p, doms, ips) ==
  /\ calls[p].pc = "idle"
  /\ started < MaxCalls
  /\ \E ip \in ips, domain \in doms, sender \in Senders :
       calls' = [calls EXCEPT ![p] =
                   validated([IdleCall EXCEPT !.ip = ip, !.raw = domain,
                                              !.lp = localPart(sender),
                                              !.L0 = Lookups, !.V0 = Voids],
                             ValidateDomain(domain))]
  /\ started' = started + 1
  /\ UNCHANGED <<Lookups, Voids, subject, outcome>>

\* the parse error ignored: the walk starts on whatever Parse returned
selectedUnparsed(c, sel, pr) ==
  IF sel.ret THEN Returned(c, sel.res, sel.err)
  ELSE [c EXCEPT !.pc = "walk", !.mechs = pr.rec.Mechs, !.i = 1]

\* CheckHost, lines 85-103, and evaluate, lines 117-120: sel is what the fetch
\* decided, pr what Parse made of the record
selected(c, sel, pr) ==
  IF sel.ret THEN Returned(c, sel.res, sel.err)
  ELSE IF ~pr.err.nil THEN Returned(c, CheckHostResult(PermError, pr.err), NilErr)
  ELSE [c EXCEPT !.pc = "walk", !.mechs = pr.rec.Mechs, !.i = 1]

\* CheckHost, line 82: fetch is what GetSPFRecord returned
fetched(c, fetch) == selected(c, recordSelection(fetch), Parse(fetch.spf))

\* the call c once a lookup has returned err: a context error is noted
noted(c, err) == [c EXCEPT !.ctxErr = IF IsContextErr(err) THEN err ELSE NilErr]

\* the TXT fetch counted as a lookup of the budget
TXTReplyCounted(p) ==
  /\ calls[p].pc = "txt"
  /\ \E ans \in Answers(ZoneTXT(calls[p].domain)) :
       calls' = [calls EXCEPT ![p] = fetched(noted(calls[p], ans.err), GetSPFRecord(ans))]
  /\ Lookups' = Lookups + 1
  /\ UNCHANGED <<Voids, started, subject, outcome>>

\* CheckHost, lines 82-103, and evaluate, lines 117-120: LookupTXT returns
TXTReply(p) ==
  /\ calls[p].pc = "txt"
  /\ \E ans \in Answers(ZoneTXT(calls[p].domain)) :
       calls' = [calls EXCEPT ![p] = fetched(noted(calls[p], ans.err), GetSPFRecord(ans))]
  /\ UNCHANGED <<Lookups, Voids, started, subject, outcome>>

\* evaluate, lines 122-161: the loop reaches mechanism i; for an "a" mechanism
\* evalA begins and reads c.Lookups (the first half of c.Lookups++)
Walk(p) ==
  /\ calls[p].pc = "walk"
  /\ LET c == calls[p]
         d == walkDecision(c.mechs[c.i], c.ip)
     IN calls' = [calls EXCEPT ![p] =
                    IF c.i > Len(c.mechs)
                    THEN Returned(c, CheckHostResult(Neutral, ErrNoAssertion), NilErr)
                    ELSE IF d = "match"
                         THEN Returned([c EXCEPT !.matched = c.i],
                                       CheckHostResult(resultFromQualifier(c.mechs[c.i].Qual), NilErr),
                                       NilErr)
                    ELSE IF d = "next" THEN [c EXCEPT !.i = c.i + 1]
                    ELSE [c EXCEPT !.pc = "aStore", !.tmp = Lookups]]
  /\ UNCHANGED <<Lookups, Voids, started, subject, outcome>>

\* evalA, line 178: the write of c.Lookups++
AStore(p) ==
  /\ calls[p].pc = "aStore"
  /\ Lookups' = calls[p].tmp + 1
  /\ calls' = [calls EXCEPT ![p].pc = "aCheck"]
  /\ UNCHANGED <<Voids, started, subject, outcome>>

\* evalA, lines 179-184: the limit test, then the call of LookupIP
ACheck(p) ==
  /\ calls[p].pc = "aCheck"
  /\ LET c    == calls[p]
         perm == evalErrorResult(ErrPermfail)
     IN calls' = [calls EXCEPT ![p] =
                    IF lookupsExceeded(Lookups, MaxDNSLookups)
                    THEN Returned(c, perm.res, perm.err)
                    ELSE [c EXCEPT !.pc = "ip", !.ipLog = Append(c.ipLog, c.i)]]
  /\ UNCHANGED <<Lookups, Voids, started, subject, outcome>>

\* evalA, lines 185-198, and evaluate, lines 139-148: LookupIP failed, lerr
\* being what evaluate returns for it
lookupFailed(c, lerr) == Returned(c, lerr.res, lerr.err)

\* evalA, lines 209-243, and evaluate, lines 149-152: the verdict ok of the
\* comparison of the addresses returned for the mechanism c.i
compared(c, ok) ==
  IF ok
  THEN Returned([c EXCEPT !.lastA = [i |-> c.i, ok |-> ok], !.matched = c.i],
                CheckHostResult(resultFromQualifier(c.mechs[c.i].Qual), NilErr), NilErr)
  ELSE [c EXCEPT !.lastA = [i |-> c.i, ok |-> ok], !.pc = "walk", !.i = c.i + 1]

\* evalA, lines 184-243, and evaluate, lines 139-152: LookupIP returns; for an
\* empty answer evalA reads c.Voids (the first half of c.Voids++)
IPReply(p) ==
  /\ calls[p].pc = "ip"
  /\ \E ans \in Answers(ZoneIP(targetOf(calls[p].mechs[calls[p].i], calls[p].domain))) :
       calls' = [calls EXCEPT ![p] =
                   IF ~ans.err.nil
                   THEN lookupFailed(noted(calls[p], ans.err),
                                     evalErrorResult(lookupError(ans.err)))
                   ELSE IF Len(ans.ips) = 0
                        THEN [calls[p] EXCEPT !.pc = "vStore", !.tmp = Voids]
                   ELSE compared(calls[p],
                                 addressesMatch(calls[p].mechs[calls[p].i], calls[p].ip, ans.ips))]
  /\ UNCHANGED <<Lookups, Voids, started, subject, outcome>>

\* evalA, line 202: the write of c.Voids++
VStore(p) ==
  /\ calls[p].pc = "vStore"
  /\ Voids' = calls[p].tmp + 1
  /\ calls' = [calls EXCEPT ![p].pc = "vCheck"]
  /\ UNCHANGED <<Lookups, started, subject, outcome>>

\* evalA, lines 203-206: the void-lookup limit test
VCheck(p) ==
  /\ calls[p].pc = "vCheck"
  /\ LET c    == calls[p]
         perm == evalErrorResult(ErrPermfail)
     IN calls' = [calls EXCEPT ![p] =
                    IF voidsExceeded(Voids, MaxVoidLookups)
                    THEN Returned(c, perm.res, perm.err)
                    ELSE [c EXCEPT !.pc = "walk", !.i = c.i + 1]]
  /\ UNCHANGED <<Lookups, Voids, started, subject, outcome>>

\* the caller has the result; the goroutine may call CheckHost again
Return(p) ==
  /\ calls[p].pc = "done"
  /\ calls' = [calls EXCEPT ![p] = IdleCall]
  /\ UNCHANGED <<Lookups, Voids, started, subject, outcome>>

\* CheckHost calls made one after the other
Next ==
  \/ Start(1, Domains, ClientIPs)
  \/ TXTReply(1)
  \/ Walk(1)
  \/ AStore(1)
  \/ ACheck(1)
  \/ IPReply(1)
  \/ VStore(1)
  \/ VCheck(1)
  \/ Return(1)

Spec == Init /\ [][Next]_vars

\* CheckHost calls made by two goroutines at once, as the package-level
\* CheckHost on defaultChecker allows
NextConc ==
  \E p \in Procs :
    \/ Start(p, ConcDomains, ConcIPs)
    \/ TXTReply(p)
    \/ Walk(p)
    \/ AStore(p)
    \/ ACheck(p)
    \/ IPReply(p)
    \/ VStore(p)
    \/ VCheck(p)

SpecConc == Init /\ [][NextConc]_vars

(***************************************************************************)
(* Functions of the packages called on their own                           *)
(***************************************************************************)

\* the sequences over S of length at most n
SeqsUpTo(S, n) == UNION {[1..k -> S] : k \in 0..n}

\* how many TXT strings a lookup returns
MaxTXTs == 3

\* TXT strings a domain may publish: the text, whether its first
\* whitespace-delimited field is the version tag "v=spf1" in any letter
\* case, and for those the text trimmed and lower-cased
TXTPool ==
  {[text |-> <<" ","V","=","S","P","F","1"," ","-","a","l","l"," ">>,
    spf |-> TRUE, canon |-> <<"v","=","s","p","f","1"," ","-","a","l","l">>],
   [text |-> <<"v","=","s","p","f","1"," ","+","a","l","l">>,
    spf |-> TRUE, canon |-> <<"v","=","s","p","f","1"," ","+","a","l","l">>],
   [text |-> <<"v","=","s","p","f","1","0"," ","-","a","l","l">>,
    spf |-> FALSE, canon |-> <<>>],
   [text |-> <<"v","=","s","p","f","2"," ","a">>,
    spf |-> FALSE, canon |-> <<>>],
   [text |-> <<"v","=","s","p","f","1">>,
    spf |-> TRUE, canon |-> <<"v","=","s","p","f","1">>],
   [text |-> <<"s","o","m","e"," ","t","x","t">>,
    spf |-> FALSE, canon |-> <<>>],
   [text |-> <<"v","=","S","p","f","1","\t","M","X">>,
    spf |-> TRUE, canon |-> <<"v","=","s","p","f","1","\t","m","x">>],
   [text |-> <<>>,
    spf |-> FALSE, canon |-> <<>>]}

\* the checker is left alone while a function is called on its own
CheckerIdle ==
  /\ Lookups = 0
  /\ Voids = 0
  /\ calls = [p \in Procs |-> IdleCall]
  /\ started = 0

\* a list of TXT strings is handed to filterSPF
InitFilter ==
  /\ CheckerIdle
  /\ subject \in SeqsUpTo(TXTPool, MaxTXTs)
  /\ outcome = Pending

\* what a function called on its own returned
Done(val) == [done |-> TRUE, val |-> val]

\* filterSPF is called with the texts of the list
CallFilterSPF ==
  /\ ~outcome.done
  /\ outcome' = Done(filterSPF([i \in 1..Len(subject) |-> subject[i].text]))
  /\ UNCHANGED <<Lookups, Voids, calls, started, subject>>

NextFilter == CallFilterSPF

SpecFilter == InitFilter /\ [][NextFilter]_vars

\* how many terms a record text has after its version tag
MaxTerms == 3

\* what a record text starts with, and whether that, once trimmed, begins
\* with "v=spf1" in any letter case
TagPool ==
  {[text |-> <<"v","=","s","p","f","1">>, versioned |-> TRUE],
   [text |-> <<" ","V","=","S","P","F","1","\t">>, versioned |-> TRUE],
   [text |-> <<"v","=","s","p","f","1","0">>, versioned |-> TRUE],
   [text |-> <<"s","p","f","1">>, versioned |-> FALSE],
   [text |-> <<>>, versioned |-> FALSE]}

\* terms of a record text: whether the term is a mechanism, and for a
\* mechanism its kind and the result its qualifier character stands for
\* ("+" when it has none); "redirect=qm.ex" is a modifier, "bogus" no term
TermPool ==
  {[text |-> <<"a","l","l">>,
    mech |-> TRUE, kind |-> KindAll, qual |-> "+"],
   [text |-> <<"-","a","l","l">>,
    mech |-> TRUE, kind |-> KindAll, qual |-> "-"],
   [text |-> <<"~","i","p","4",":","2","0","3",".","0",".","1","1","3",".","0","/","2","4">>,
    mech |-> TRUE, kind |-> KindIP4, qual |-> "~"],
   [text |-> <<"?","a",":","n",".","e","x">>,
    mech |-> TRUE, kind |-> KindA, qual |-> "?"],
   [text |-> <<"m","x">>,
    mech |-> TRUE, kind |-> KindMX, qual |-> "+"],
   [text |-> <<"+","i","n","c","l","u","d","e",":","q","p",".","e","x">>,
    mech |-> TRUE, kind |-> KindInclude, qual |-> "+"],
   [text |-> <<"r","e","d","i","r","e","c","t","=","q","m",".","e","x">>,
    mech |-> FALSE, kind |-> "", qual |-> ""],
   [text |-> <<"b","o","g","u","s">>,
    mech |-> FALSE, kind |-> "", qual |-> ""]}

\* the terms written one after the other, a space before each
RECURSIVE JoinTerms(_)
JoinTerms(terms) ==
  IF terms = <<>> THEN <<>> ELSE <<" ">> \o Head(terms).text \o JoinTerms(Tail(terms))

\* the record text of a tag and its terms
TextOf(r) == r.tag.text \o JoinTerms(r.terms)

\* a record text is handed to Parse
InitParse ==
  /\ CheckerIdle
  /\ subject \in [tag : TagPool, terms : SeqsUpTo(TermPool, MaxTerms)]
  /\ outcome = Pending

\* what CheckHost returns, by client address, for a domain whose record
\* fetch returned fetch, pr being what Parse makes of the record
checkedAs(fetch, pr) ==
  [ip \in ClientIPs |-> runRecord(0, 0, ip, D_a, recordSelection(fetch), pr)]

\* CheckHost on a fresh Checker for a domain that publishes the one TXT
\* string text
publishing(fetch) == checkedAs(fetch, Parse(fetch.spf))

\* Parse is called with the text, and CheckHost for a domain publishing it
CallParse ==
  /\ ~outcome.done
  /\ outcome' = Done([parse |-> Parse(TextOf(subject)),
                      check |-> publishing(GetSPFRecord(TXTAnswer(<<TextOf(subject)>>)))])
  /\ UNCHANGED <<Lookups, Voids, calls, started, subject>>

NextParse == CallParse

SpecParse == InitParse /\ [][NextParse]_vars

\* terms of a record text that are modifiers, with the name in lower case
\* ("unknown" for a name other than redirect and exp) and the value in lower
\* case; "-all" is a mechanism
ModPool ==
  {[text |-> <<"r","e","d","i","r","e","c","t","=","q","m",".","e","x">>,
    name |-> "redirect", value |-> <<"q","m",".","e","x">>],
   [text |-> <<"R","E","D","I","R","E","C","T","=","Q","p",".","E","x">>,
    name |-> "redirect", value |-> <<"q","p",".","e","x">>],
   [text |-> <<"r","e","d","i","r","e","c","t","=","%","{","d","}",".","e","x">>,
    name |-> "redirect", value |-> <<"%","{","d","}",".","e","x">>],
   [text |-> <<"e","x","p","=","e",".","e","x">>,
    name |-> "exp", value |-> <<"e",".","e","x">>],
   [text |-> <<"E","x","p","=","%","{","d","}",".","e","x">>,
    name |-> "exp", value |-> <<"%","{","d","}",".","e","x">>],
   [text |-> <<"x","=","y">>,
    name |-> "unknown", value |-> <<"y">>],
   [text |-> <<"-","a","l","l">>,
    name |-> "mech", value |-> <<>>]}

\* a record text of modifiers and "all" terms is handed to Parse
InitMods ==
  /\ CheckerIdle
  /\ subject \in [tag : {t \in TagPool : t.text = KwVersion}, terms : SeqsUpTo(ModPool, MaxTerms)]
  /\ outcome = Pending

SpecMods == InitMods /\ [][NextParse]_vars

\* how many "/"-separated segments follow the domain of an a or mx term
MaxMaskSegs == 3

\* what is written after a "/": the text, whether it is a decimal number
\* (digits only) and the number
MaskPool ==
  {[text |-> <<"0">>, dec |-> TRUE, n |-> 0],
   [text |-> <<"3","2">>, dec |-> TRUE, n |-> 32],
   [text |-> <<"3","3">>, dec |-> TRUE, n |-> 33],
   [text |-> <<"1","2","8">>, dec |-> TRUE, n |-> 128],
   [text |-> <<"1","2","9">>, dec |-> TRUE, n |-> 129],
   [text |-> <<"x">>, dec |-> FALSE, n |-> 0],
   [text |-> <<>>, dec |-> FALSE, n |-> 0],
   [text |-> <<"-","1">>, dec |-> FALSE, n |-> 0]}

\* what follows the keyword of an a or mx term, before any "/": nothing, ":"
\* and a valid domain, ":" and a single-label name, ":" and a domain with a
\* macro, ":" alone, or text that is no domain-spec
DomainPool ==
  {[text |-> <<>>, form |-> "none", octets |-> <<>>],
   [text |-> <<":","n",".","e","x">>, form |-> "domain", octets |-> <<>>],
   [text |-> <<":","l","o","c","a","l","h","o","s","t">>, form |-> "badname", octets |-> <<>>],
   [text |-> <<":","%","{","d","}",".","e","x">>, form |-> "macro", octets |-> <<>>],
   [text |-> <<":">>, form |-> "nodomain", octets |-> <<>>],
   [text |-> <<"f","o","o">>, form |-> "junk", octets |-> <<>>],
   [text |-> <<"l","l">>, form |-> "junk", octets |-> <<>>]}

\* what follows "ip4:" or "ip6:", before any "/": a dotted-quad IPv4 address,
\* an IPv6 address, an IPv4-mapped IPv6 address (an IPv4 address to net.IP),
\* or no address; octets are those of the address
AddrPool ==
  {[text |-> <<"2","0","3",".","0",".","1","1","3",".","2","3">>, form |-> "v4", octets |-> <<203,0,113,23>>],
   [text |-> <<"2","0","0","1",":","d","b","8",":",":","1">>, form |-> "v6", octets |-> <<32,1,13,184,0,0,0,0,0,0,0,0,0,0,0,1>>],
   [text |-> <<":",":","f","f","f","f",":","2","0","3",".","0",".","1","1","3",".","2","3">>, form |-> "v4in6", octets |-> <<0,0,0,0,0,0,0,0,0,0,255,255,203,0,113,23>>],
   [text |-> <<"2","0","3",".","0",".","1","1","3">>, form |-> "noaddr", octets |-> <<>>],
   [text |-> <<"n",".","e","x">>, form |-> "noaddr", octets |-> <<>>],
   [text |-> <<>>, form |-> "noaddr", octets |-> <<>>]}

\* what follows the keyword of a ptr term
PtrPool ==
  {[text |-> <<>>, form |-> "none", octets |-> <<>>],
   [text |-> <<":","n",".","e","x">>, form |-> "domain", octets |-> <<>>],
   [text |-> <<":","%","{","d","}">>, form |-> "macro", octets |-> <<>>],
   [text |-> <<":">>, form |-> "nodomain", octets |-> <<>>],
   [text |-> <<"f","o","o">>, form |-> "junk", octets |-> <<>>],
   [text |-> <<".","e","x">>, form |-> "junk", octets |-> <<>>]}

\* the "/"-segments written one after the other
RECURSIVE JoinMasks(_)
JoinMasks(masks) ==
  IF masks = <<>> THEN <<>> ELSE <<"/">> \o Head(masks).text \o JoinMasks(Tail(masks))

\* one term: its keyword, what follows the keyword, its "/"-segments, and
\* the text these make
TermsOf(kws, doms, maskss) ==
  {[text |-> k.text \o d.text \o JoinMasks(m), kw |-> k, dom |-> d, masks |-> m] :
     k \in kws, d \in doms, m \in maskss}

\* the terms handed to Parse one at a time
SingleTerms ==
  TermsOf({[text |-> KwA, kind |-> KindA], [text |-> KwMX, kind |-> KindMX]},
          DomainPool, SeqsUpTo(MaskPool, MaxMaskSegs))
  \cup TermsOf({[text |-> KwIP4, kind |-> KindIP4], [text |-> KwIP6, kind |-> KindIP6]},
               AddrPool, SeqsUpTo(MaskPool, 1))
  \cup TermsOf({[text |-> KwPTR, kind |-> KindPTR]}, PtrPool, SeqsUpTo(MaskPool, 1))

\* a record text of the version tag and one term is handed to Parse
InitTerm ==
  /\ CheckerIdle
  /\ subject \in [tag : {t \in TagPool : t.text = KwVersion}, terms : {<<t>> : t \in SingleTerms}]
  /\ outcome = Pending

SpecTerm == InitTerm /\ [][NextParse]_vars

\* how many pieces a name handed to ValidateDomain is joined from
MaxPieces == 3

\* the character c written n times
Rep(c, n) == [k \in 1..n |-> c]

\* pieces of a name, joined by dots: the text, the text in lower case, the
\* lengths of its labels, and whether every label is made of letters, digits
\* and inner hyphens only
PiecePool ==
  {[text |-> <<"E","x">>, lower |-> <<"e","x">>, lens |-> <<2>>, ldh |-> TRUE],
   [text |-> <<>>, lower |-> <<>>, lens |-> <<0>>, ldh |-> TRUE],
   [text |-> Rep("a", 63), lower |-> Rep("a", 63), lens |-> <<63>>, ldh |-> TRUE],
   [text |-> Rep("a", 64), lower |-> Rep("a", 64), lens |-> <<64>>, ldh |-> TRUE],
   [text |-> Rep("b", 63) \o <<".">> \o Rep("c", 63) \o <<".">> \o Rep("d", 63),
    lower |-> Rep("b", 63) \o <<".">> \o Rep("c", 63) \o <<".">> \o Rep("d", 63),
    lens |-> <<63, 63, 63>>, ldh |-> TRUE],
   [text |-> <<"-","x">>, lower |-> <<"-","x">>, lens |-> <<2>>, ldh |-> FALSE]}

\* what a name ends with, and what of that is left once white space is
\* trimmed and one final dot is taken off
EndPool ==
  {[text |-> <<>>, left |-> <<>>],
   [text |-> <<".">>, left |-> <<>>],
   [text |-> <<".","\t"," ">>, left |-> <<>>],
   [text |-> <<".",".">>, left |-> <<".">>],
   [text |-> <<" ",".">>, left |-> <<" ">>]}

\* white space a name may start with
StartPool == {<<>>, <<" ","\t">>}

\* the texts joined by dots
RECURSIVE JoinDots(_)
JoinDots(texts) ==
  IF texts = <<>> THEN <<>>
  ELSE IF Len(texts) = 1 THEN texts[1]
  ELSE texts[1] \o <<".">> \o JoinDots(Tail(texts))

\* the name handed to ValidateDomain
NameOf(s) ==
  s.start \o JoinDots([k \in 1..Len(s.pieces) |-> s.pieces[k].text]) \o s.end.text

\* the names: inner pieces may be empty, the last one is not, so that the
\* dots a name ends with are those of its end
Names ==
  [start  : StartPool,
   pieces : {ps \in SeqsUpTo(PiecePool, MaxPieces) : ps = <<>> \/ ps[Len(ps)].text # <<>>},
   end    : EndPool]

\* a name is handed to ValidateDomain
InitDomain ==
  /\ CheckerIdle
  /\ subject \in Names
  /\ outcome = Pending

\* ValidateDomain is called with the name
CallValidateDomain ==
  /\ ~outcome.done
  /\ outcome' = Done(ValidateDomain(NameOf(subject)))
  /\ UNCHANGED <<Lookups, Voids, calls, started, subject>>

NextDomain == CallValidateDomain

SpecDomain == InitDomain /\ [][NextDomain]_vars

(***************************************************************************)
(* Properties                                                              *)
(***************************************************************************)

\* the elements of a sequence
Range(f) == {f[k] : k \in 1..Len(f)}

\* the "a" mechanisms among the first n mechanisms of call c
AMechsUpTo(c, n) == {j \in 1..n : j <= Len(c.mechs) /\ c.mechs[j].Kind = KindA}

\* the zone's answer for the "a" mechanism j of call c
AnswerFor(c, j) == ZoneIP(targetOf(c.mechs[j], c.domain))

\* the walk of call c stands at a mechanism
AtMech(c) == c.i \in 1..Len(c.mechs)

\* the value a call returned
ReturnOf(c) == [res |-> c.res, err |-> c.err]

\* C1: on a fresh Checker, once ten "a" mechanisms have had their address
\* lookup and the walk stands at a further "a" mechanism, no address lookup
\* is issued for that mechanism and the call returns permerror with a nil
\* error.
LookupBudgetEnforced ==
  \A p \in Procs :
    LET c == calls[p]
    IN (/\ c.L0 = 0
        /\ AtMech(c)
        /\ c.mechs[c.i].Kind = KindA
        /\ Cardinality({j \in AMechsUpTo(c, c.i - 1) : j \in Range(c.ipLog)}) = MaxDNSLookups)
       => /\ c.i \notin Range(c.ipLog)
          /\ c.pc \notin {"ip", "vStore", "vCheck"}
          /\ (c.pc = "done" => c.res.Code = PermError /\ c.err.nil)

\* C1 witness: the eleventh "a" mechanism, whose target holds the client's
\* address, ended the call with permerror
LookupBudgetReached ==
  \E p \in Procs :
    LET c == calls[p]
    IN /\ c.pc = "done"
       /\ c.L0 = 0
       /\ AtMech(c)
       /\ c.mechs[c.i].Kind = KindA
       /\ Len(c.ipLog) = MaxDNSLookups
       /\ c.i \notin Range(c.ipLog)
       /\ c.ip \in Range(AnswerFor(c, c.i).ips)
       /\ c.res.Code = PermError

\* C2: the lookup counter never exceeds MaxLookups and the void-lookup
\* counter never exceeds MaxVoidLookups.
CountersWithinLimits == Lookups <= MaxDNSLookups /\ Voids <= MaxVoidLookups

\* C3: a call that was not cancelled returns what the same call returns on a
\* freshly constructed Checker, whatever calls were made before it.
StatelessCalls ==
  \A p \in Procs :
    LET c     == calls[p]
        fresh == CheckHostRun(0, 0, c.ip, c.raw)
    IN (c.pc = "done" /\ c.ctxErr.nil) => ReturnOf(c) = [res |-> fresh.res, err |-> fresh.err]

\* C4: of calls that run at the same time on a Checker whose counters were
\* zero when they began, each returns what it returns when run alone.
IsolatedCalls ==
  \A p \in Procs :
    LET c     == calls[p]
        alone == CheckHostRun(0, 0, c.ip, c.raw)
    IN (c.pc = "done" /\ c.ctxErr.nil /\ c.L0 = 0 /\ c.V0 = 0)
       => ReturnOf(c) = [res |-> alone.res, err |-> alone.err]

\* the result a qualifier stands for (RFC 7208 section 4.6.2)
QualifierCode(q) == IF q = "+" THEN "pass" ELSE IF q = "-" THEN "fail"
                    ELSE IF q = "~" THEN "softfail" ELSE "neutral"

\* mechanism j of call c matches the client: all always, ip4/ip6 by their
\* network, "a" by evalA's test on the zone's answer
MechMatches(c, j) ==
  \/ c.mechs[j].Kind = KindAll
  \/ ipMechMatches(c.mechs[j], c.ip)
  \/ /\ c.mechs[j].Kind = KindA
     /\ AnswerFor(c, j).err.nil
     /\ addressesMatch(c.mechs[j], c.ip, AnswerFor(c, j).ips)

\* the "a" mechanisms among the first n whose lookup comes back empty
VoidMechsUpTo(c, n) ==
  {j \in AMechsUpTo(c, n) : AnswerFor(c, j).err.nil /\ Len(AnswerFor(c, j).ips) = 0}

BitOf(ip, n) == (ip[((n - 1) \div 8) + 1] \div Pow2(7 - ((n - 1) % 8))) % 2

\* two addresses of n octets agree on their first bits bits
SamePrefix(a, b, bits) == \A n \in 1..bits : BitOf(a, n) = BitOf(b, n)

\* some returned address of the client's family agrees with the client on
\* the mechanism's CIDR length for that family
PrefixMatch(mech, ip, ips) ==
  LET n4 == IF mech.Mask4 < 0 THEN 32 ELSE mech.Mask4
      n6 == IF mech.Mask6 < 0 THEN 128 ELSE mech.Mask6
  IN IF To4(ip) # NilIP
     THEN \E k \in 1..Len(ips) : To4(ips[k]) # NilIP /\ SamePrefix(To4(ip), To4(ips[k]), n4)
     ELSE \E k \in 1..Len(ips) :
            To4(ips[k]) = NilIP /\ Len(ips[k]) = 16 /\ SamePrefix(ip, ips[k], n6)

\* C6: an "a" mechanism whose target resolves to a non-empty address set
\* matches exactly when some returned address of the client's family agrees
\* with the client on the first N bits, N the CIDR length for that family.
AMatchIsPrefixMatch ==
  \A p \in Procs :
    LET c == calls[p]
    IN c.lastA.i > 0
       => c.lastA.ok = PrefixMatch(c.mechs[c.lastA.i], c.ip, AnswerFor(c, c.lastA.i).ips)

\* the records "v=spf1 <Q>all"
AllRecord(q) == KwVersion \o <<" ">> \o q \o KwAll

\* the SPF records among the TXT strings published for a domain
PublishedSPF(d) ==
  SelectSeq(ZoneTXT(d).txts, LAMBDA t : HasPrefix(ToLower(t), KwVersion \o <<" ">>))

\* C7: for a domain whose one SPF record is "v=spf1 <Q>all", the call returns
\* pass, fail, softfail, neutral, pass for <Q> = "+", "-", "~", "?", absent,
\* with a nil error, for every client IP.
QualifierMapping ==
  \A p \in Procs :
    LET c == calls[p]
        one(q) == c.txtIssued /\ ZoneTXT(c.domain).err.nil
                  /\ PublishedSPF(c.domain) = <<AllRecord(q)>>
    IN (c.pc = "done" /\ c.ctxErr.nil)
       => /\ (one(<<"+">>) => c.res.Code = "pass" /\ c.err.nil)
          /\ (one(<<"-">>) => c.res.Code = "fail" /\ c.err.nil)
          /\ (one(<<"~">>) => c.res.Code = "softfail" /\ c.err.nil)
          /\ (one(<<"?">>) => c.res.Code = "neutral" /\ c.err.nil)
          /\ (one(<<>>) => c.res.Code = "pass" /\ c.err.nil)

\* C7 witness: all five records have been evaluated, here "~all" by a call
\* that began with used counters
QualifierMappingReached ==
  \E p \in Procs :
    LET c == calls[p]
    IN /\ c.pc = "done"
       /\ c.ctxErr.nil
       /\ PublishedSPF(c.domain) = <<AllRecord(<<"~">>)>>
       /\ c.res.Code = "softfail"
       /\ c.L0 > 0

\* C8: a call whose domain argument fails validation returns none with the
\* validation error as cause and a nil error, issues no lookup and leaves
\* both counters as they were.
InvalidDomainIsNone ==
  \A p \in Procs :
    LET c == calls[p]
    IN (c.pc # "idle" /\ ~ValidateDomain(c.raw).err.nil)
       => /\ c.pc = "done"
          /\ c.res = CheckHostResult("none", ValidateDomain(c.raw).err)
          /\ c.err.nil
          /\ ~c.txtIssued
          /\ c.ipLog = <<>>
          /\ Lookups = c.L0
          /\ Voids = c.V0

\* C8 witness: such a call was made on a Checker with used counters
InvalidDomainReached ==
  \E p \in Procs :
    LET c == calls[p]
    IN /\ c.pc = "done"
       /\ c.raw = D_localhost
       /\ c.res = CheckHostResult("none", ErrSingleLabel)
       /\ c.L0 > 0

\* no mechanism was evaluated by call c
NothingEvaluated(c) == c.i = 0 /\ c.mechs = <<>> /\ c.ipLog = <<>> /\ c.matched = 0

\* C9: the failure of the record fetch decides the result: not found gives
\* none, a temporary failure temperror, any other failure permerror, two or
\* more SPF records permerror, each with the classified error as cause and
\* without any mechanism evaluated.
FetchOutcomeMapping ==
  \A p \in Procs :
    LET c == calls[p]
        a == ZoneTXT(c.domain)
    IN (c.pc = "done" /\ c.txtIssued /\ c.ctxErr.nil)
       => /\ (a.err.dnsErr /\ a.err.IsNotFound)
             => c.res = CheckHostResult("none", ErrNoDNSrecord) /\ NothingEvaluated(c)
          /\ (a.err.dnsErr /\ ~a.err.IsNotFound /\ (a.err.IsTemporary \/ a.err.IsTimeout))
             => /\ c.res.Code = "temperror"
                /\ ErrorsIs(c.res.Cause, ErrTempfail)
                /\ NothingEvaluated(c)
          /\ (~a.err.nil /\ ~(a.err.dnsErr /\ (a.err.IsNotFound \/ a.err.IsTemporary \/ a.err.IsTimeout)))
             => /\ c.res.Code = "permerror"
                /\ ErrorsIs(c.res.Cause, ErrPermfail)
                /\ NothingEvaluated(c)
          /\ (a.err.nil /\ Len(PublishedSPF(c.domain)) >= 2)
             => c.res = CheckHostResult("permerror", ErrMultipleSPF) /\ NothingEvaluated(c)

\* C9 witness: a fetch that timed out ended a call with temperror
FetchOutcomeReached ==
  \E p \in Procs :
    LET c == calls[p]
    IN /\ c.pc = "done"
       /\ c.ctxErr.nil
       /\ ZoneTXT(c.domain).err.IsTimeout
       /\ c.res.Code = "temperror"

\* C10: once a lookup of a call has returned the context's error, the call
\* has returned that error with the empty result, and no mechanism after the
\* one that was being looked up has been evaluated.
CancellationPropagates ==
  \A p \in Procs :
    LET c == calls[p]
    IN ~c.ctxErr.nil
       => /\ c.pc = "done"
          /\ c.err = c.ctxErr
          /\ c.err \in CtxErrs
          /\ c.res = ZeroResult
          /\ c.matched = 0
          /\ (c.i = 0 => c.mechs = <<>> /\ c.ipLog = <<>>)
          /\ (c.i > 0 => c.ipLog # <<>> /\ c.ipLog[Len(c.ipLog)] = c.i)

\* C10 witness: the address lookup of the second "a" mechanism of a record
\* returned the context's error
CancellationReached ==
  \E p \in Procs :
    LET c == calls[p]
    IN /\ c.pc = "done"
       /\ c.err = ContextDeadlineExceeded
       /\ Len(c.ipLog) = 2
       /\ c.i < Len(c.mechs)

\* C11: a call returns a non-nil error only when a lookup of the call
\* returned the context's cancellation or deadline error.
NoErrorLeak ==
  \A p \in Procs :
    LET c == calls[p]
    IN (c.pc = "done" /\ ~c.err.nil) => (~c.ctxErr.nil /\ c.err \in CtxErrs)

\* the first whitespace-delimited field of a text, empty if there is none
FirstField(t) ==
  LET ns == {k \in 1..Len(t) : t[k] \notin WhiteSpace}
      a  == CHOOSE k \in ns : \A j \in ns : k <= j
      b  == CHOOSE k \in ns : /\ \A j \in a..k : j \in ns
                              /\ (k + 1) \notin ns
  IN IF ns = {} THEN <<>> ELSE SubSeq(t, a, b)

\* a TXT string is an SPF version-1 record: its first field is "v=spf1" in
\* any letter case (RFC 7208 section 4.5)
IsVersion1(t) == ToLower(FirstField(t)) = KwVersion

\* the SPF version-1 records among the TXT strings published for a domain
CandidateTXT(d) == SelectSeq(ZoneTXT(d).txts, IsVersion1)

\* C12: when the TXT lookup succeeds and no string returned is an SPF
\* version-1 record, the call returns the empty result (empty code, nil
\* cause, which is not none) with a nil error, and evaluates no mechanism.
EmptyFetchIsEmptyOutcome ==
  \A p \in Procs :
    LET c == calls[p]
    IN (/\ c.pc = "done"
        /\ c.txtIssued
        /\ c.ctxErr.nil
        /\ ZoneTXT(c.domain).err.nil
        /\ CandidateTXT(c.domain) = <<>>)
       => /\ c.res.Code = ""
          /\ c.res.Code # "none"
          /\ c.res.Cause.nil
          /\ c.err.nil
          /\ NothingEvaluated(c)

\* C12 witness: a call for a domain that publishes one TXT string, not an SPF
\* record, has returned the empty result
EmptyFetchReached ==
  \E p \in Procs :
    LET c == calls[p]
    IN /\ c.pc = "done"
       /\ c.ctxErr.nil
       /\ c.txtIssued
       /\ Len(ZoneTXT(c.domain).txts) = 1
       /\ CandidateTXT(c.domain) = <<>>
       /\ c.res = ZeroResult

\* the strings of a list that are marked SPF version-1 records
Candidates(txts) == SelectSeq(txts, LAMBDA r : r.spf)

\* C13: filterSPF keeps exactly the strings whose first whitespace-delimited
\* field is "v=spf1" in any letter case; with none it returns the empty
\* record and no error, with one that string trimmed and lower-cased, with
\* two or more the multiple-records error.
SelectionByVersionField ==
  outcome.done
  => /\ \A i \in 1..Len(subject) : subject[i].spf = IsVersion1(subject[i].text)
     /\ Len(Candidates(subject)) = 0 => outcome.val = [spf |-> <<>>, err |-> NilErr]
     /\ Len(Candidates(subject)) = 1
        => outcome.val = [spf |-> Candidates(subject)[1].canon, err |-> NilErr]
     /\ Len(Candidates(subject)) >= 2
        => outcome.val.spf = <<>> /\ ErrorsIs(outcome.val.err, ErrMultipleSPF)

\* C13 witness: of three strings, one of them "v=spf10 -all", the one
\* candidate, which had to be trimmed and lower-cased, was returned
SelectionReached ==
  /\ outcome.done
  /\ Len(subject) = 3
  /\ \E i \in 1..3 : subject[i].text = <<"v","=","s","p","f","1","0"," ","-","a","l","l">>
  /\ Len(Candidates(subject)) = 1
  /\ Candidates(subject)[1].canon # Candidates(subject)[1].text
  /\ outcome.val.spf = Candidates(subject)[1].canon

\* the one SPF record a domain publishes, as record selection hands it on
SelectedRecord(d) == ToLower(TrimSpace(CandidateTXT(d)[1]))

\* a domain publishes exactly one SPF record, and the TXT lookup succeeds
HasOneRecord(d) == ZoneTXT(d).err.nil /\ Len(CandidateTXT(d)) = 1

\* C14: when the selected record fails to parse, the call returns permerror
\* with the parse error as cause and a nil error, whatever the client IP,
\* and no mechanism is evaluated, not even one to the left of the bad term.
ParseFailureIsPermError ==
  \A p \in Procs :
    LET c == calls[p]
    IN (/\ c.pc = "done"
        /\ c.txtIssued
        /\ c.ctxErr.nil
        /\ HasOneRecord(c.domain)
        /\ ~Parse(SelectedRecord(c.domain)).err.nil)
       => /\ c.res = CheckHostResult("permerror", Parse(SelectedRecord(c.domain)).err)
          /\ c.err.nil
          /\ NothingEvaluated(c)

\* C14 witness: the record "v=spf1 +all bogus", whose first term matches every
\* client, ended a call with permerror
ParseFailureReached ==
  \E p \in Procs :
    LET c == calls[p]
    IN /\ c.pc = "done"
       /\ c.ctxErr.nil
       /\ HasOneRecord(c.domain)
       /\ SelectedRecord(c.domain) = R_junk
       /\ c.res.Code = "permerror"
       /\ c.L0 > 0

\* the record a call evaluates parsed without error
ParsedOK(c) == c.txtIssued /\ HasOneRecord(c.domain) /\ Parse(SelectedRecord(c.domain)).err.nil

\* the record a call evaluates has a redirect modifier
HasRedirect(c) == ~Parse(SelectedRecord(c.domain)).rec.Redirect.nil

\* the walk of a call went past the last mechanism without a match
Exhausted(c) == c.pc = "done" /\ c.matched = 0 /\ c.i = Len(c.mechs) + 1

\* the result "neutral" with a cause, as opposed to the neutral of "?"
NeutralWithCause(c) == c.res.Code = "neutral" /\ ~c.res.Cause.nil

\* C15: a call whose record parsed, has no redirect modifier and was walked
\* to its end without a match returns neutral with a non-nil cause and a nil
\* error, and a call returns neutral with a cause in that case only.
NeutralOnlyOnExhaustion ==
  \A p \in Procs :
    LET c == calls[p]
    IN (c.pc = "done" /\ c.ctxErr.nil)
       => /\ (ParsedOK(c) /\ ~HasRedirect(c) /\ Exhausted(c))
             => (NeutralWithCause(c) /\ c.err.nil)
          /\ NeutralWithCause(c)
             => (ParsedOK(c) /\ ~HasRedirect(c) /\ Exhausted(c))

\* what check_host returns for the redirect target of the record of call c,
\* run with the counters as the walk left them
RedirectOutcome(c) ==
  CheckHostRun(Lookups, Voids, c.ip, Parse(SelectedRecord(c.domain)).rec.Redirect.Value)

\* C16: for a record with a redirect modifier, a call whose walk ends without
\* a match returns what check_host returns for the redirect target, and a
\* call that finds a match returns the matching mechanism's result.
RedirectOnExhaustion ==
  \A p \in Procs :
    LET c == calls[p]
    IN (c.pc = "done" /\ c.ctxErr.nil /\ ParsedOK(c) /\ HasRedirect(c))
       => /\ c.matched > 0
             => c.res = CheckHostResult(QualifierCode(c.mechs[c.matched].Qual), NilErr)
          /\ Exhausted(c)
             => ReturnOf(c) = [res |-> RedirectOutcome(c).res, err |-> RedirectOutcome(c).err]

\* the code of the result check_host returns for the target of the include
\* mechanism j of call c, on fresh counters
IncludeCode(c, j) == CheckHostRun(0, 0, c.ip, c.mechs[j].Domain).res.Code

\* C17: a call whose first mechanism is an include: an inner pass makes the
\* include match and the outer qualifier gives the result; inner fail,
\* softfail or neutral make the walk go on; inner temperror gives temperror;
\* inner permerror or none give permerror.
IncludeReinterpreted ==
  \A p \in Procs :
    LET c == calls[p]
    IN (/\ c.pc = "done"
        /\ c.ctxErr.nil
        /\ c.L0 = 0
        /\ c.V0 = 0
        /\ Len(c.mechs) > 0
        /\ c.mechs[1].Kind = KindInclude)
       => /\ IncludeCode(c, 1) = "pass"
             => c.matched = 1 /\ c.res.Code = QualifierCode(c.mechs[1].Qual)
          /\ IncludeCode(c, 1) \in {"fail", "softfail", "neutral"} => c.matched # 1
          /\ IncludeCode(c, 1) = "temperror" => c.res.Code = "temperror"
          /\ IncludeCode(c, 1) \in {"permerror", "none"} => c.res.Code = "permerror"

\* a client address is IPv4: four octets, or sixteen with the IPv4-mapped
\* prefix ::ffff:0:0/96
IsIPv4Client(ip) ==
  \/ Len(ip) = 4
  \/ /\ Len(ip) = 16
     /\ \A k \in 1..10 : ip[k] = 0
     /\ ip[11] = 255
     /\ ip[12] = 255

\* the four octets of an IPv4 client
V4Octets(ip) == IF Len(ip) = 4 THEN ip ELSE SubSeq(ip, 13, 16)

\* the client is of the family of the ip4 or ip6 mechanism and agrees with
\* the mechanism's network on the bits of its prefix length
InNetwork(mech, ip) ==
  IF mech.Kind = KindIP4
  THEN IsIPv4Client(ip)
       /\ SamePrefix(V4Octets(ip), V4Octets(mech.Net.IP), MaskOnes(mech.Net.Mask))
  ELSE /\ ~IsIPv4Client(ip)
       /\ Len(ip) = 16
       /\ SamePrefix(ip, mech.Net.IP, MaskOnes(mech.Net.Mask))

\* C18: an ip4 or ip6 mechanism that the walk evaluates matches exactly when
\* the client is of its family and inside its network; no address lookup is
\* issued for it, and the counters rise by "a" mechanisms only.
IPMechByFamilyAndNetwork ==
  \A p \in Procs :
    LET c == calls[p]
    IN /\ \A j \in 1..Len(c.mechs) :
            c.mechs[j].Kind \in {KindIP4, KindIP6}
            => /\ j \notin Range(c.ipLog)
               /\ j < c.i => ~InNetwork(c.mechs[j], c.ip)
               /\ c.matched = j => InNetwork(c.mechs[j], c.ip)
               /\ c.i = j => c.pc \in {"walk", "done"}
               /\ (c.i = j /\ c.pc = "done") => c.matched = j
       /\ c.pc # "idle"
          => /\ Lookups - c.L0 <= Cardinality(AMechsUpTo(c, c.i))
             /\ Voids - c.V0 <= Cardinality(VoidMechsUpTo(c, c.i))

\* C18 witness: an ip6 mechanism matched a pure IPv6 client in a call that
\* began with used counters and left them as they were
IPMechReached ==
  \E p \in Procs :
    LET c == calls[p]
    IN /\ c.pc = "done"
       /\ c.L0 > 0
       /\ Lookups = c.L0
       /\ Voids = c.V0
       /\ c.matched > 0
       /\ c.mechs[c.matched].Kind = KindIP6
       /\ ~IsIPv4Client(c.ip)

\* C19: Parse accepts only a text that begins with "v=spf1" in any letter
\* case and has a term after the version tag; it rejects a text without the
\* prefix and a text without terms, and CheckHost gives permerror with a nil
\* error for a domain that publishes "v=spf1" alone.
VersionAndTermsRequired ==
  outcome.done
  => /\ outcome.val.parse.err.nil => (subject.tag.versioned /\ Len(subject.terms) >= 1)
     /\ ~subject.tag.versioned => ~outcome.val.parse.err.nil
     /\ Len(subject.terms) = 0 => ~outcome.val.parse.err.nil
     /\ (IsVersion1(TextOf(subject)) /\ Len(subject.terms) = 0)
        => \A ip \in ClientIPs :
             /\ outcome.val.check[ip].res.Code = "permerror"
             /\ outcome.val.check[ip].err.nil

\* C19 witness: the text "v=spf1" alone was rejected and its domain got
\* permerror
VersionAloneReached ==
  /\ outcome.done
  /\ TextOf(subject) = KwVersion
  /\ ~outcome.val.parse.err.nil
  /\ outcome.val.check[IP_203_5].res.Code = "permerror"

\* the mechanism terms among the terms of a record text, in their order
MechTerms(r) == SelectSeq(r.terms, LAMBDA t : t.mech)

\* C20: for a text Parse accepts, Mechs has one Mechanism per mechanism term,
\* in the order of the text, modifiers contributing none, each with the
\* kind of its term and with the qualifier the term begins with, "+" if none.
MechsInSourceOrder ==
  (outcome.done /\ outcome.val.parse.err.nil)
  => /\ Len(outcome.val.parse.rec.Mechs) = Len(MechTerms(subject))
     /\ \A k \in 1..Len(MechTerms(subject)) :
          /\ outcome.val.parse.rec.Mechs[k].Kind = MechTerms(subject)[k].kind
          /\ outcome.val.parse.rec.Mechs[k].Qual = MechTerms(subject)[k].qual

\* C20 witness: an accepted text of three terms, a modifier between two
\* mechanisms of different kinds, the second without a qualifier character
MechsInOrderReached ==
  /\ outcome.done
  /\ outcome.val.parse.err.nil
  /\ Len(subject.terms) = 3
  /\ subject.terms[1].mech
  /\ ~subject.terms[2].mech
  /\ subject.terms[3].mech
  /\ subject.terms[1].kind # subject.terms[3].kind
  /\ subject.terms[1].qual # "+"
  /\ subject.terms[3].text[1] \notin {"+", "-", "~", "?"}
  /\ Len(outcome.val.parse.rec.Mechs) = 2

\* the terms of the record handed to Parse that are modifiers named name
Named(name) == {k \in 1..Len(subject.terms) : subject.terms[k].name = name}

\* the modifier Parse stored for the one term named name, nil if there is none
StoredAs(mod, name) ==
  IF Named(name) = {} THEN mod.nil
  ELSE /\ ~mod.nil
       /\ mod.Name = name
       /\ \E k \in Named(name) : mod.Value = subject.terms[k].value

\* C21: Parse rejects every record in which redirect appears twice or exp
\* appears twice; a Record it returns carries the one redirect and the one
\* exp of the text, and none where the text has none.
OneRedirectOneExp ==
  outcome.done =>
    /\ (Cardinality(Named("redirect")) > 1 \/ Cardinality(Named("exp")) > 1)
         => ~outcome.val.parse.err.nil
    /\ outcome.val.parse.err.nil =>
         /\ StoredAs(outcome.val.parse.rec.Redirect, "redirect")
         /\ StoredAs(outcome.val.parse.rec.Exp, "exp")

\* C21 witness: a record with two valid redirect modifiers, differing in
\* value and letter case, was refused as a duplicate
DuplicateRedirectReached ==
  /\ outcome.done
  /\ Len(subject.terms) = 2
  /\ Named("redirect") = {1, 2}
  /\ subject.terms[1].value # subject.terms[2].value
  /\ outcome.val.parse.err = Errorf("duplicate redirect")

\* the one term of the record handed to Parse
TheTerm == subject.terms[1]

\* Parse refused the record
Refused == ~outcome.val.parse.err.nil

\* the term is the given keyword followed by text of one of the forms
TermIs(kinds, forms) == TheTerm.kw.kind \in kinds /\ TheTerm.dom.form \in forms

\* the bits of an address of the term's family
FullLength == IF TheTerm.kw.kind = KindIP4 THEN 32 ELSE 128

\* what Parse makes of the term with the full prefix length written out
WithFullLength ==
  Parse(KwVersion \o <<" ">> \o TheTerm.text
          \o (IF TheTerm.kw.kind = KindIP4 THEN <<"/","3","2">> ELSE <<"/","1","2","8">>))

\* the network of one address: the octets of the address under a mask of ones
HostNetwork ==
  [IP |-> TheTerm.dom.octets, Mask |-> [k \in 1..(FullLength \div 8) |-> 255]]

\* C22: an ip4:/ip6: term without "/" parses as the same term with /32 or
\* /128 does, to the network of that one address; Parse refuses a prefix
\* length that is no number in [0,32] (ip4) or [0,128] (ip6), an ip4: term
\* with an address that is not IPv4 and an ip6: term with an IPv4 address.
IPLiteralTerms ==
  outcome.done /\ TermIs({KindIP4, KindIP6}, {"v4", "v6", "v4in6", "noaddr"}) =>
    /\ TheTerm.masks = <<>> => outcome.val.parse = WithFullLength
    /\ /\ TheTerm.masks = <<>>
       /\ TermIs({KindIP4}, {"v4"}) \/ TermIs({KindIP6}, {"v6"})
       => /\ ~Refused
          /\ outcome.val.parse.rec.Mechs[1].Kind = TheTerm.kw.kind
          /\ outcome.val.parse.rec.Mechs[1].Net = HostNetwork
    /\ /\ TheTerm.masks # <<>>
       /\ ~(TheTerm.masks[1].dec /\ TheTerm.masks[1].n \in 0..FullLength)
       => Refused
    /\ TermIs({KindIP4}, {"v6", "noaddr"}) => Refused
    /\ TermIs({KindIP6}, {"v4", "v4in6", "noaddr"}) => Refused

\* C22 witness: "ip4:203.0.113.23" was parsed to the network 203.0.113.23/32
DefaultPrefixReached ==
  /\ outcome.done
  /\ TermIs({KindIP4}, {"v4"})
  /\ TheTerm.masks = <<>>
  /\ ~Refused
  /\ outcome.val.parse.rec.Mechs[1].Net =
       [IP |-> <<203, 0, 113, 23>>, Mask |-> <<255, 255, 255, 255>>]

\* the name in normal form: white space trimmed, one final dot taken off,
\* in lower case
NormalName ==
  JoinDots([k \in 1..Len(subject.pieces) |-> subject.pieces[k].lower]) \o subject.end.left

\* the lengths of the labels of the pieces
RECURSIVE PieceLabels(_)
PieceLabels(pieces) ==
  IF pieces = <<>> THEN <<>> ELSE Head(pieces).lens \o PieceLabels(Tail(pieces))

\* the lengths of the labels of the normal form: a name without pieces is
\* one empty label, a dot left at the end starts one more empty label, and a
\* blank left at the end belongs to the last label
NormalLabels ==
  LET ls == IF subject.pieces = <<>> THEN <<0>> ELSE PieceLabels(subject.pieces)
  IN IF subject.end.left = <<".">> THEN ls \o <<0>>
     ELSE IF subject.end.left = <<" ">> THEN [ls EXCEPT ![Len(ls)] = @ + 1]
     ELSE ls

\* the name converts to ASCII: letters, digits, dots and inner hyphens only
Converts ==
  /\ \A k \in 1..Len(subject.pieces) : subject.pieces[k].ldh
  /\ subject.end.left # <<" ">>

\* C23: ValidateDomain succeeds exactly for a name whose normal form
\* converts to ASCII, has at most 255 octets, at least two labels and every
\* label of 1 to 63 octets, and then returns the normal form; otherwise it
\* returns no name and one of five sentinel errors, each of which names a
\* requirement the name does fail.
DomainChecks ==
  outcome.done =>
    /\ outcome.val.err.nil <=>
         /\ Converts
         /\ Len(NormalName) <= 255
         /\ Len(NormalLabels) >= 2
         /\ \A k \in 1..Len(NormalLabels) : NormalLabels[k] \in 1..63
    /\ outcome.val.err.nil => outcome.val.val = NormalName
    /\ ~outcome.val.err.nil =>
         /\ outcome.val.val = <<>>
         /\ outcome.val.err \in {ErrIDNAConversion, ErrDomainTooLong, ErrSingleLabel,
                                 ErrEmptyLabel, ErrLabelTooLong}
         /\ outcome.val.err = ErrIDNAConversion => ~Converts
         /\ outcome.val.err = ErrDomainTooLong => Len(NormalName) > 255
         /\ outcome.val.err = ErrSingleLabel => Len(NormalLabels) < 2
         /\ outcome.val.err = ErrEmptyLabel => \E k \in 1..Len(NormalLabels) : NormalLabels[k] = 0
         /\ outcome.val.err = ErrLabelTooLong => \E k \in 1..Len(NormalLabels) : NormalLabels[k] > 63

\* C23 witness: a name of 255 octets in four labels of 63, written with a
\* final dot, was returned in normal form
LongestNameReached ==
  /\ outcome.done
  /\ subject.end.text = <<".">>
  /\ NormalLabels = <<63, 63, 63, 63>>
  /\ outcome.val.err.nil
  /\ Len(outcome.val.val) = 255

\* C24: Parse refuses every term that begins with "ptr" and is neither the
\* bare keyword nor "ptr:" followed by a domain-spec, such as "ptrfoo",
\* "ptr.ex" and "ptr:".
PtrSyntaxEnforced ==
  outcome.done /\ TermIs({KindPTR}, {"junk", "nodomain"}) => Refused

\* the mechanisms of the call c, among those the walk has gone past, whose
\* evaluation needs a DNS lookup
DNSMechsPassed(c) ==
  {j \in 1..(c.i - 1) : c.mechs[j].Kind \in {KindA, KindMX, KindInclude, KindExists, KindPTR}}

\* C25: every a, mx, include, exists and ptr mechanism the walk reaches
\* adds at least one to the lookup counter: while a call walks its record,
\* the counter has grown since the call began by at least the number of
\* such mechanisms the walk has gone past.
EveryDNSMechCounted ==
  \A p \in Procs :
    calls[p].pc = "walk" =>
      Lookups - calls[p].L0 >= Cardinality(DNSMechsPassed(calls[p]))

\* the zone's answer for the mechanism the call c stands at is an empty
\* address set
EmptyAnswer(c) == AnswerFor(c, c.i).err.nil /\ Len(AnswerFor(c, c.i).ips) = 0

\* C26: in a step of a call, an address lookup that returns the zone's
\* answer leads to the void-lookup count exactly when the answer is empty;
\* the count adds one to Voids and matches nothing; if Voids then exceeds
\* MaxVoidLookups the call returns permerror with a nil error, otherwise the
\* walk goes on with the next mechanism; no other step changes Voids.
VoidLookupCounted ==
  [][\A p \in Procs :
       /\ (calls[p].pc = "ip" /\ calls'[p].ctxErr.nil)
            => (calls'[p].pc = "vStore" <=> EmptyAnswer(calls[p]))
       /\ calls[p].pc = "vStore"
            => Voids' = Voids + 1 /\ calls'[p].pc = "vCheck" /\ calls'[p].matched = 0
       /\ (calls[p].pc = "vCheck" /\ Voids > MaxVoidLookups)
            => /\ calls'[p].pc = "done"
               /\ calls'[p].res.Code = PermError
               /\ calls'[p].err.nil
               /\ calls'[p].matched = 0
       /\ (calls[p].pc = "vCheck" /\ Voids <= MaxVoidLookups)
            => /\ calls'[p].pc = "walk"
               /\ calls'[p].i = calls[p].i + 1
               /\ calls'[p].matched = 0
       /\ (\A q \in Procs : calls[q].pc # "vStore") => Voids' = Voids
    ]_vars

\* C26 witness: the third empty answer of a fresh Checker ended a call with
\* permerror at a mechanism that has mechanisms to its right
VoidLimitReached ==
  \E p \in Procs :
    LET c == calls[p]
    IN /\ c.pc = "done"
       /\ AtMech(c)
       /\ c.i < Len(c.mechs)
       /\ c.ipLog # <<>>
       /\ c.ipLog[Len(c.ipLog)] = c.i
       /\ c.ctxErr.nil
       /\ EmptyAnswer(c)
       /\ Voids = MaxVoidLookups + 1
       /\ c.res.Code = PermError
       /\ c.err.nil

\* the mechanisms of the call c whose address lookup was issued and fails in
\* the zone
FailedLookups(c) == {j \in Range(c.ipLog) : ~AnswerFor(c, j).err.nil}

\* the failure is a DNS error that says it is temporary (its temporary or
\* its timeout flag, as Temporary() reports)
FlaggedTemporary(err) == err.dnsErr /\ (err.IsTemporary \/ err.IsTimeout)

\* C27: a call never walks past an "a" mechanism whose address lookup fails:
\* no mechanism to its right is looked up, nothing matches, and unless the
\* context's error came back the call returns a nil error with temperror for
\* a DNS error flagged temporary and permerror for any other failure.
ALookupFailureEnds ==
  \A p \in Procs :
    \A j \in FailedLookups(calls[p]) :
      /\ calls[p].i = j
      /\ calls[p].pc \in {"ip", "done"}
      /\ calls[p].matched = 0
      /\ \A k \in Range(calls[p].ipLog) : k <= j
      /\ (calls[p].pc = "done" /\ calls[p].ctxErr.nil)
           => /\ calls[p].err.nil
              /\ calls[p].res.Code = IF FlaggedTemporary(AnswerFor(calls[p], j).err)
                                     THEN TempError ELSE PermError

\* C27 witness: a temporary DNS failure at a mechanism that has a mechanism
\* to its right ended a call with temperror
ALookupFailureReached ==
  \E p \in Procs :
    LET c == calls[p]
    IN /\ c.pc = "done"
       /\ c.ctxErr.nil
       /\ c.i \in FailedLookups(c)
       /\ c.i < Len(c.mechs)
       /\ AnswerFor(c, c.i).err.IsTemporary
       /\ c.res.Code = TempError
       /\ c.err.nil

\* the "/"-segments of the term are a mask for IPv4 addresses, or one for
\* IPv4 and one for IPv6 addresses, decimal and in range
MasksWellFormed ==
  /\ Len(TheTerm.masks) <= 2
  /\ Len(TheTerm.masks) >= 1 => TheTerm.masks[1].dec /\ TheTerm.masks[1].n \in 0..32
  /\ Len(TheTerm.masks) = 2 => TheTerm.masks[2].dec /\ TheTerm.masks[2].n \in 0..128

\* the mask number k as Parse is to store it: -1 when it is not written
MaskGiven(k) == IF Len(TheTerm.masks) >= k THEN TheTerm.masks[k].n ELSE -1

\* C28: Parse accepts an a or mx term exactly when the keyword is followed
\* by nothing or by ":" and a non-empty domain, and then by no mask, a mask
\* in [0,32] or such a mask and one in [0,128]; it stores the masks written
\* and -1 for those that are not. (Terms whose domain is invalid or holds a
\* macro are left to C29.)
AMxGrammar ==
  outcome.done /\ TermIs({KindA, KindMX}, {"none", "domain", "nodomain", "junk"})
      /\ TheTerm.text # KwAll
    => /\ ~Refused <=> (TheTerm.dom.form \in {"none", "domain"} /\ MasksWellFormed)
       /\ ~Refused =>
            /\ outcome.val.parse.rec.Mechs[1].Kind = TheTerm.kw.kind
            /\ outcome.val.parse.rec.Mechs[1].Mask4 = MaskGiven(1)
            /\ outcome.val.parse.rec.Mechs[1].Mask6 = MaskGiven(2)

\* C29: the domain written in an a or mx term is validated when the term is
\* parsed exactly when it holds no macro: a macro-free domain that is not
\* valid makes Parse fail, a valid one is accepted, and a domain with a macro
\* is accepted without validation and stored as written.
DomainValidatedUnlessMacro ==
  outcome.done /\ TermIs({KindA, KindMX}, {"domain", "badname", "macro"}) /\ MasksWellFormed
    => /\ TheTerm.dom.form = "badname" => Refused
       /\ TheTerm.dom.form \in {"domain", "macro"} =>
            /\ ~Refused
            /\ outcome.val.parse.rec.Mechs[1].Domain = Tail(TheTerm.dom.text)

\* the call c returned before the walk over the mechanisms began
EndedBeforeWalk(c) == c.pc = "done" /\ c.i = 0

====
